---- MODULE Spec2Model ----
(***************************************************************************)
(* Seltra AMM: the volatility-adaptive rebalancing engine.                 *)
(*                                                                         *)
(* The model follows contracts/rebalancing_engine/contract.py, the         *)
(* on-chain RebalancingEngine.  Its numbers are algopy UInt64 values:      *)
(* a subtraction below zero and a division by zero fail the call, which    *)
(* leaves the contract state as it was.  A failed call is a result with    *)
(* ok = FALSE.                                                             *)
(*                                                                         *)
(* The volatility estimator is contracts/legacy/volatility_oracle/         *)
(* contract.py, the on-chain VolatilityOracleContract, and beside it the   *)
(* VolatilityCalculator of contracts/refactored/backend_service.py.        *)
(*                                                                         *)
(* Beside the engine stand its two other copies: the integer harness of    *)
(* contracts/legacy/rebalancing_engine/test_logic.py (logic_ operators,    *)
(* signed integers) and the RebalancingEngine of backend_service.py        *)
(* (backend_ operators), and the state-only contract of                    *)
(* contracts/refactored/rebalancing_state/contract.py.                     *)
(***************************************************************************)
EXTENDS Integers, Sequences, FiniteSets, TLC

\* ------------------------------------------------------------ constants
\* contract.py, lines 28-54
VOLATILITY_SCALE == 1000000

ULTRA_LOW_THRESHOLD == 15000
LOW_THRESHOLD == 30000
MEDIUM_THRESHOLD == 60000
HIGH_THRESHOLD == 120000

ULTRA_LOW_FACTOR == 4000
LOW_FACTOR == 6000
MEDIUM_FACTOR == 10000
HIGH_FACTOR == 18000
EXTREME_FACTOR == 25000

ULTRA_LOW_RANGES == 2
LOW_RANGES == 3
MEDIUM_RANGES == 4
HIGH_RANGES == 5
EXTREME_RANGES == 6

DEFAULT_MAX_SLIPPAGE == 100
DEFAULT_COOLDOWN == 300
DEFAULT_MIN_RANGE_SIZE == 50

\* The length of arc4.StaticArray[arc4.StaticArray[arc4.UInt64, 3], 6].
NUM_SLOTS == 6

\* ---------------------------------------------------------------- bounds
\* The clock stops at MaxTime and the counters at MaxRebalances.
MaxTime == 700
MaxRebalances == 2
\* The volatilities classified are the multiples of 1000 up to
\* MaxVolSteps * 1000, and the thresholds with their neighbours.
MaxVolSteps == 130
\* Range arrays under validation and scoring fill their first
\* MaxFilledSlots slots; the other slots are empty.
MaxFilledSlots == 2
\* The allocator is tried on the prices 1..MaxSmallPrice and some larger ones.
MaxSmallPrice == 12

\* The oracle and the calculator take MaxUpdates prices after the first one.
MaxUpdates == 3
\* The clock of the oracle stops at MaxOracleTime.
MaxOracleTime == 60
\* The square root is taken of 0..MaxRadicand and of some larger values.
MaxRadicand == 150

\* ----------------------------------------------------------------- state
VARIABLES
    is_initialized,          \* contract.py:70
    authorized_pool,         \* contract.py:72
    max_slippage,            \* contract.py:75
    rebalance_cooldown,      \* contract.py:76
    min_range_size,          \* contract.py:77
    last_rebalance_time,     \* contract.py:80
    last_trigger_volatility, \* contract.py:81
    total_rebalances,        \* contract.py:82
    successful_rebalances,   \* contract.py:83
    failed_rebalances,       \* contract.py:84
    total_efficiency_gain,   \* contract.py:87
    average_efficiency_gain, \* contract.py:88
    now,                     \* Global.latest_timestamp
    oracle,                  \* the fields of VolatilityOracleContract
    calculator,              \* the fields of the backend's VolatilityCalculator
    rebalancing_state,       \* the fields of the refactored RebalancingState
    call,                    \* the operation applied last and its arguments
    ret                      \* what that operation returned

config == <<is_initialized, authorized_pool, max_slippage, rebalance_cooldown,
            min_range_size>>
history == <<last_rebalance_time, last_trigger_volatility, total_rebalances,
             successful_rebalances, failed_rebalances, total_efficiency_gain,
             average_efficiency_gain>>
estimators == <<oracle, calculator>>
vars == <<config, history, now, estimators, rebalancing_state, call, ret>>

NoCall == [op |-> "none"]
NoRet == [ok |-> FALSE, op |-> "none"]

\* ------------------------------------------------------ UInt64 arithmetic
\* A UInt64 subtraction: Underflow when the result would be negative.  The
\* source's abs(a - b) subtracts first, so it fails wherever a < b.
Underflow == -1
USub(a, b) == IF a >= b THEN a - b ELSE Underflow

\* ------------------------------------------------------ decision tree
Regimes == <<"ultra_low", "low", "medium", "high", "extreme">>

\* Mutants of classify_volatility_regime: thresholds that belong to the lower
\* regime, and the high regime with the low regime's factor.
classify_inclusive_thresholds(volatility) ==
    IF volatility <= ULTRA_LOW_THRESHOLD
    THEN [regime |-> "ultra_low", factor |-> ULTRA_LOW_FACTOR,
          num_ranges |-> ULTRA_LOW_RANGES]
    ELSE IF volatility <= LOW_THRESHOLD
    THEN [regime |-> "low", factor |-> LOW_FACTOR, num_ranges |-> LOW_RANGES]
    ELSE IF volatility <= MEDIUM_THRESHOLD
    THEN [regime |-> "medium", factor |-> MEDIUM_FACTOR,
          num_ranges |-> MEDIUM_RANGES]
    ELSE IF volatility <= HIGH_THRESHOLD
    THEN [regime |-> "high", factor |-> HIGH_FACTOR,
          num_ranges |-> HIGH_RANGES]
    ELSE [regime |-> "extreme", factor |-> EXTREME_FACTOR,
          num_ranges |-> EXTREME_RANGES]

classify_high_with_low_factor(volatility) ==
    IF volatility < ULTRA_LOW_THRESHOLD
    THEN [regime |-> "ultra_low", factor |-> ULTRA_LOW_FACTOR,
          num_ranges |-> ULTRA_LOW_RANGES]
    ELSE IF volatility < LOW_THRESHOLD
    THEN [regime |-> "low", factor |-> LOW_FACTOR, num_ranges |-> LOW_RANGES]
    ELSE IF volatility < MEDIUM_THRESHOLD
    THEN [regime |-> "medium", factor |-> MEDIUM_FACTOR,
          num_ranges |-> MEDIUM_RANGES]
    ELSE IF volatility < HIGH_THRESHOLD
    THEN [regime |-> "high", factor |-> LOW_FACTOR,
          num_ranges |-> HIGH_RANGES]
    ELSE [regime |-> "extreme", factor |-> EXTREME_FACTOR,
          num_ranges |-> EXTREME_RANGES]

classify_volatility_regime(volatility) ==
    IF volatility < ULTRA_LOW_THRESHOLD
    THEN [regime |-> "ultra_low", factor |-> ULTRA_LOW_FACTOR,
          num_ranges |-> ULTRA_LOW_RANGES]
    ELSE IF volatility < LOW_THRESHOLD
    THEN [regime |-> "low", factor |-> LOW_FACTOR, num_ranges |-> LOW_RANGES]
    ELSE IF volatility < MEDIUM_THRESHOLD
    THEN [regime |-> "medium", factor |-> MEDIUM_FACTOR,
          num_ranges |-> MEDIUM_RANGES]
    ELSE IF volatility < HIGH_THRESHOLD
    THEN [regime |-> "high", factor |-> HIGH_FACTOR,
          num_ranges |-> HIGH_RANGES]
    ELSE [regime |-> "extreme", factor |-> EXTREME_FACTOR,
          num_ranges |-> EXTREME_RANGES]

\* ------------------------------------------------------ the trigger
\* Mutants of should_rebalance_decision: the efficiency check ahead of the
\* cooldown check, and a staleness check that is not strict.
should_rebalance_efficiency_first(current_efficiency, time_since_last, volatility_change) ==
    IF current_efficiency < 6000 THEN TRUE
    ELSE IF time_since_last < rebalance_cooldown THEN FALSE
    ELSE IF volatility_change > 20000 THEN TRUE
    ELSE IF time_since_last > 3600 THEN TRUE
    ELSE FALSE

should_rebalance_stale_at_3600(current_efficiency, time_since_last, volatility_change) ==
    IF time_since_last < rebalance_cooldown THEN FALSE
    ELSE IF current_efficiency < 6000 THEN TRUE
    ELSE IF volatility_change > 20000 THEN TRUE
    ELSE IF time_since_last >= 3600 THEN TRUE
    ELSE FALSE

\* The body of should_rebalance after its assert.
should_rebalance_decision(current_efficiency, time_since_last, volatility_change) ==
    IF time_since_last < rebalance_cooldown THEN FALSE
    ELSE IF current_efficiency < 6000 THEN TRUE
    ELSE IF volatility_change > 20000 THEN TRUE
    ELSE IF time_since_last > 3600 THEN TRUE
    ELSE FALSE

\* ------------------------------------------------------ range arrays
\* One arc4.StaticArray[arc4.UInt64, 3]: slot [0] is lower, [1] upper,
\* [2] liquidity.
Range(lower, upper, liquidity) ==
    [lower |-> lower, upper |-> upper, liquidity |-> liquidity]

EmptyRange == Range(0, 0, 0)

\* Mutant of parse_ranges: the string is decoded, a string of one range into
\* that range in the first slot.
parse_ranges_decoding(ranges_json) ==
    [i \in 1..NUM_SLOTS |->
        IF i = 1 /\ ranges_json = "[[1000,1100,1000]]"
        THEN Range(1000, 1100, 1000)
        ELSE IF i = 1 /\ ranges_json = "[[1100,1000,1000]]"
        THEN Range(1100, 1000, 1000)
        ELSE EmptyRange]

\* The six empty ranges _parse_ranges returns for every string.
parse_ranges(ranges_json) == [i \in 1..NUM_SLOTS |-> EmptyRange]

\* ------------------------------------------------------ safety validation
\* The first loop of _validate_safety: the sum of the positive liquidity of
\* slots i..6.
RECURSIVE sum_liquidity(_, _)
sum_liquidity(ranges, i) ==
    IF i > NUM_SLOTS THEN 0
    ELSE (IF ranges[i].liquidity > 0 THEN ranges[i].liquidity ELSE 0)
         + sum_liquidity(ranges, i + 1)

Verdict(ok, is_safe, reason, index) ==
    [ok |-> ok, is_safe |-> is_safe, reason |-> reason, index |-> index]

\* Mutant of check_range: the minimum size of a range is not checked.
check_range_without_size(new_ranges, i) ==
    LET lower == new_ranges[i].lower
        upper == new_ranges[i].upper
        liquidity == new_ranges[i].liquidity
    IN  IF ~(liquidity > 0) THEN Verdict(TRUE, TRUE, "continue", i - 1)
        ELSE IF lower >= upper
        THEN Verdict(TRUE, FALSE, "lower >= upper", i - 1)
        ELSE Verdict(TRUE, TRUE, "continue", i - 1)

\* One pass of the second loop of _validate_safety, on slot i (the source's
\* i - 1): what the pass returns, or reason "continue" when the loop goes on.
check_range(new_ranges, i) ==
    LET lower == new_ranges[i].lower
        upper == new_ranges[i].upper
        liquidity == new_ranges[i].liquidity
    IN  IF ~(liquidity > 0) THEN Verdict(TRUE, TRUE, "continue", i - 1)
        ELSE IF lower >= upper
        THEN Verdict(TRUE, FALSE, "lower >= upper", i - 1)
        ELSE IF liquidity <= 0
        THEN Verdict(TRUE, FALSE, "non-positive liquidity", i - 1)
        ELSE IF lower = 0
        THEN Verdict(FALSE, FALSE, "division by zero", i - 1)
        ELSE IF ((upper - lower) * 10000) \div lower < min_range_size
        THEN Verdict(TRUE, FALSE, "too small", i - 1)
        ELSE Verdict(TRUE, TRUE, "continue", i - 1)

\* The second loop of _validate_safety from slot i on.
RECURSIVE check_range_validity(_, _)
check_range_validity(new_ranges, i) ==
    IF i > NUM_SLOTS THEN Verdict(TRUE, TRUE, "Validation passed", NUM_SLOTS)
    ELSE LET v == check_range(new_ranges, i)
         IN  IF v.reason = "continue"
             THEN check_range_validity(new_ranges, i + 1)
             ELSE v

validate_safety(old_ranges, new_ranges) ==
    LET old_total == sum_liquidity(old_ranges, 1)
        new_total == sum_liquidity(new_ranges, 1)
        diff == USub(old_total, new_total)
    IN  IF diff = Underflow
        THEN Verdict(FALSE, FALSE, "uint64 underflow", 0)
        ELSE IF diff > old_total \div 1000
        THEN Verdict(TRUE, FALSE, "Liquidity not conserved", 0)
        ELSE check_range_validity(new_ranges, 1)

\* ------------------------------------------------------ range calculation
Min(a, b) == IF a < b THEN a ELSE b

\* Lines 372-393 and 403 of _calculate_ranges_for_regime: the price bounds.
price_bounds(current_price, concentration_factor, num_ranges) ==
    LET percent == (concentration_factor * 100) \div 10000
        price_bound_percent == IF percent > 50 THEN 50 ELSE percent
        price_range == (current_price * price_bound_percent) \div 100
        min_price0 == USub(current_price, price_range)
        max_price0 == current_price + price_range
        min_price == IF min_price0 <= 0 THEN current_price \div 2 ELSE min_price0
        max_price == IF max_price0 <= min_price
                     THEN min_price + current_price \div 10
                     ELSE max_price0
    IN  [min_price |-> min_price, max_price |-> max_price,
         range_size |-> (max_price - min_price) \div num_ranges,
         max_distance |-> (max_price - min_price) \div 2]

\* Mutant of range_for_slot: every range reaches one unit into the next.
range_for_slot_overlapping(i, current_price, concentration_factor, num_ranges, total_liquidity) ==
    LET b == price_bounds(current_price, concentration_factor, num_ranges)
        lower == b.min_price + (i * b.range_size)
        upper == b.min_price + ((i + 1) * b.range_size) + 1
        range_center == (lower + upper) \div 2
        distance == USub(range_center, current_price)
        headroom == USub(b.max_distance, distance)
        proximity_factor == IF b.max_distance > 0
                            THEN (headroom * 10000) \div b.max_distance
                            ELSE 10000
        base_allocation == total_liquidity \div num_ranges
        proximity_bonus == (base_allocation * proximity_factor) \div 20000
    IN  IF ~(i < num_ranges) THEN [ok |-> TRUE, range |-> EmptyRange]
        ELSE IF distance = Underflow THEN [ok |-> FALSE, range |-> EmptyRange]
        ELSE IF b.max_distance > 0 /\ headroom = Underflow
        THEN [ok |-> FALSE, range |-> EmptyRange]
        ELSE [ok |-> TRUE,
              range |-> Range(lower, upper, base_allocation + proximity_bonus)]

\* One pass of the loop of _calculate_ranges_for_regime, for the source's
\* i in 0..5: the range of slot i, or ok = FALSE where a UInt64 subtraction
\* goes below zero.
range_for_slot(i, current_price, concentration_factor, num_ranges, total_liquidity) ==
    LET b == price_bounds(current_price, concentration_factor, num_ranges)
        lower == b.min_price + (i * b.range_size)
        upper == b.min_price + ((i + 1) * b.range_size)
        range_center == (lower + upper) \div 2
        distance == USub(range_center, current_price)
        headroom == USub(b.max_distance, distance)
        proximity_factor == IF b.max_distance > 0
                            THEN (headroom * 10000) \div b.max_distance
                            ELSE 10000
        base_allocation == total_liquidity \div num_ranges
        proximity_bonus == (base_allocation * proximity_factor) \div 20000
    IN  IF ~(i < num_ranges) THEN [ok |-> TRUE, range |-> EmptyRange]
        ELSE IF distance = Underflow THEN [ok |-> FALSE, range |-> EmptyRange]
        ELSE IF b.max_distance > 0 /\ headroom = Underflow
        THEN [ok |-> FALSE, range |-> EmptyRange]
        ELSE [ok |-> TRUE,
              range |-> Range(lower, upper, base_allocation + proximity_bonus)]

\* _calculate_ranges_for_regime: the six ranges, or ok = FALSE when a pass of
\* the loop fails.
calculate_ranges_for_regime(current_price, concentration_factor, num_ranges, total_liquidity) ==
    LET slot(i) == range_for_slot(i - 1, current_price, concentration_factor,
                                  num_ranges, total_liquidity)
    IN  IF \A i \in 1..NUM_SLOTS : slot(i).ok
        THEN [ok |-> TRUE, ranges |-> [i \in 1..NUM_SLOTS |-> slot(i).range]]
        ELSE [ok |-> FALSE, ranges |-> [i \in 1..NUM_SLOTS |-> EmptyRange]]

\* ------------------------------------------------------ UInt64 width
\* A UInt64 value beyond the model checker's integers is held as three digits
\* <<high, middle, low>> of base WIDE_BASE, the value being
\* high * WIDE_BASE^2 + middle * WIDE_BASE + low.
WIDE_BASE == 10000000
wide_of(n) == <<0, n \div WIDE_BASE, n % WIDE_BASE>>

\* 2^64 - 1 = 18446744073709551615, the largest UInt64.
UINT64_MAX == <<184467, 4407370, 9551615>>
\* FIXED_POINT_SCALE = 10^18, the price 1.0.
FIXED_POINT_SCALE == <<10000, 0, 0>>

wide_less(a, b) ==
    \/ a[1] < b[1]
    \/ a[1] = b[1] /\ a[2] < b[2]
    \/ a[1] = b[1] /\ a[2] = b[2] /\ a[3] < b[3]

wide_add(a, b) ==
    LET low == a[3] + b[3]
        middle == a[2] + b[2] + low \div WIDE_BASE
    IN  <<a[1] + b[1] + middle \div WIDE_BASE, middle % WIDE_BASE, low % WIDE_BASE>>

\* a - b where b is at most a.
wide_sub(a, b) ==
    LET borrow_low == IF a[3] < b[3] THEN 1 ELSE 0
        low == a[3] + borrow_low * WIDE_BASE - b[3]
        borrow_middle == IF a[2] < b[2] + borrow_low THEN 1 ELSE 0
        middle == a[2] + borrow_middle * WIDE_BASE - b[2] - borrow_low
    IN  <<a[1] - b[1] - borrow_middle, middle, low>>

\* a * k and a // k for a factor k of at most 100.
wide_times(a, k) ==
    LET low == a[3] * k
        middle == a[2] * k + low \div WIDE_BASE
    IN  <<a[1] * k + middle \div WIDE_BASE, middle % WIDE_BASE, low % WIDE_BASE>>

wide_div(a, k) ==
    LET middle == (a[1] % k) * WIDE_BASE + a[2]
        low == (middle % k) * WIDE_BASE + a[3]
    IN  <<a[1] \div k, middle \div k, low \div k>>

\* Lines 374-402 of _calculate_ranges_for_regime at full width, up to the
\* distance of the first range: the first UInt64 operation that fails, or
\* "none" when the first range gets its distance.
first_failure(current_price, concentration_factor, num_ranges) ==
    LET percent == (concentration_factor * 100) \div 10000
        price_bound_percent == IF percent > 50 THEN 50 ELSE percent
        product == wide_times(current_price, price_bound_percent)
        price_range == wide_div(product, 100)
        min_price0 == wide_sub(current_price, price_range)
        max_price0 == wide_add(current_price, price_range)
        min_price == IF min_price0 = wide_of(0)
                     THEN wide_div(current_price, 2) ELSE min_price0
        max_price == IF ~wide_less(min_price, max_price0)
                     THEN wide_add(min_price, wide_div(current_price, 10))
                     ELSE max_price0
        range_size == wide_div(wide_sub(max_price, min_price), num_ranges)
        lower == min_price
        upper == wide_add(min_price, range_size)
        range_center == wide_div(wide_add(lower, upper), 2)
    IN  IF wide_less(UINT64_MAX, product)
        THEN "current_price * price_bound_percent overflows"
        ELSE IF wide_less(current_price, price_range)
        THEN "current_price - price_range underflows"
        ELSE IF wide_less(UINT64_MAX, max_price0)
        THEN "current_price + price_range overflows"
        ELSE IF wide_less(range_center, current_price)
        THEN "range_center - current_price underflows"
        ELSE "none"

\* ------------------------------------------------------ efficiency score
\* One pass of the loop of _calculate_efficiency_score on a non-empty slot:
\* its weighted_score, or ok = FALSE where the pass fails.
weighted_score(range, current_price, volatility) ==
    LET range_center == (range.lower + range.upper) \div 2
        distance == USub(range_center, current_price)
        max_reasonable_distance == (current_price * volatility) \div 5000
        proximity_score ==
            IF distance <= max_reasonable_distance
            THEN 10000 - ((distance * 5000) \div max_reasonable_distance)
            ELSE 5000 \div (1 + distance \div max_reasonable_distance)
    IN  IF distance = Underflow \/ max_reasonable_distance = 0
        THEN [ok |-> FALSE, score |-> 0]
        ELSE [ok |-> TRUE, score |-> (proximity_score * range.liquidity) \div 10000]

\* The loop of _calculate_efficiency_score from slot i on: the
\* concentration_score of slots i..6.
RECURSIVE concentration_score(_, _, _, _)
concentration_score(ranges, i, current_price, volatility) ==
    IF i > NUM_SLOTS THEN [ok |-> TRUE, score |-> 0]
    ELSE LET rest == concentration_score(ranges, i + 1, current_price, volatility)
             w == weighted_score(ranges[i], current_price, volatility)
         IN  IF ~(ranges[i].liquidity > 0) THEN rest
             ELSE [ok |-> w.ok /\ rest.ok, score |-> w.score + rest.score]

calculate_efficiency_score(ranges, current_price, volatility) ==
    LET total_liquidity == sum_liquidity(ranges, 1)
        c == concentration_score(ranges, 1, current_price, volatility)
    IN  IF ~c.ok THEN [ok |-> FALSE, score |-> 0]
        ELSE IF total_liquidity = 0 THEN [ok |-> TRUE, score |-> 0]
        ELSE [ok |-> TRUE,
              score |-> Min((c.score * 10000) \div total_liquidity, 10000)]

\* ------------------------------------------------------ the logic harness
\* legacy/rebalancing_engine/test_logic.py, RebalancingEngineLogic: the copy
\* of the engine's subroutines on Python integers, which are signed and
\* unbounded; abs is the absolute value.
Abs(a) == IF a >= 0 THEN a ELSE 0 - a

\* Mutant of logic_weight: the bonus is the whole proximity factor.
logic_weight_full_bonus(proximity_factor) == 10000 + proximity_factor

\* Lines 100-103 of calculate_ranges_for_regime: the weight of a range.
logic_weight(proximity_factor) == 10000 + proximity_factor \div 2

\* calculate_ranges_for_regime: a list of num_ranges ranges.
logic_calculate_ranges_for_regime(current_price, concentration_factor, num_ranges, total_liquidity) ==
    LET percent == (concentration_factor * 100) \div 10000
        price_bound_percent == IF percent > 50 THEN 50 ELSE percent
        price_range == (current_price * price_bound_percent) \div 100
        min_price0 == current_price - price_range
        max_price0 == current_price + price_range
        min_price == IF min_price0 <= 0 THEN current_price \div 2 ELSE min_price0
        max_price == IF max_price0 <= min_price
                     THEN min_price + current_price \div 10
                     ELSE max_price0
        range_size == (max_price - min_price) \div num_ranges
        max_distance == (max_price - min_price) \div 2
        lower(i) == min_price + (i * range_size)
        upper(i) == min_price + ((i + 1) * range_size)
        weight(i) ==
            LET range_center == (lower(i) + upper(i)) \div 2
                distance == Abs(range_center - current_price)
                proximity_factor ==
                    IF max_distance > 0
                    THEN ((max_distance - distance) * 10000) \div max_distance
                    ELSE 10000
            IN  logic_weight(proximity_factor)
        RECURSIVE sum_weights(_)
        sum_weights(i) == IF i = num_ranges THEN 0
                          ELSE weight(i) + sum_weights(i + 1)
        total_weight == sum_weights(0)
    IN  [i \in 1..num_ranges |->
            Range(lower(i - 1), upper(i - 1),
                  (total_liquidity * weight(i - 1)) \div total_weight)]

\* calculate_efficiency_score of the harness, from slot i on: the
\* concentration_score of slots i..6.
RECURSIVE logic_concentration_score(_, _, _, _)
logic_concentration_score(ranges, i, current_price, volatility) ==
    IF i > Len(ranges) THEN 0
    ELSE LET range_center == (ranges[i].lower + ranges[i].upper) \div 2
             distance == Abs(range_center - current_price)
             max_reasonable_distance == (current_price * volatility) \div 5000
             proximity_score ==
                 IF max_reasonable_distance > 0
                 THEN IF distance <= max_reasonable_distance
                      THEN 10000 - ((distance * 5000) \div max_reasonable_distance)
                      ELSE 5000 \div (1 + distance \div max_reasonable_distance)
                 ELSE IF distance < current_price \div 100 THEN 10000
                 ELSE 1000
         IN  (proximity_score * ranges[i].liquidity) \div 10000
             + logic_concentration_score(ranges, i + 1, current_price, volatility)

RECURSIVE logic_sum(_, _)
logic_sum(ranges, i) ==
    IF i > Len(ranges) THEN 0 ELSE ranges[i].liquidity + logic_sum(ranges, i + 1)

logic_calculate_efficiency_score(ranges, current_price, volatility) ==
    LET total_liquidity == logic_sum(ranges, 1)
        score == logic_concentration_score(ranges, 1, current_price, volatility)
    IN  IF total_liquidity = 0 THEN 0
        ELSE Min((score * 10000) \div total_liquidity, 10000)

\* ------------------------------------------------------ volatility oracle
\* legacy/volatility_oracle/contract.py.  The fields of the contract are the
\* fields of the record oracle; prices holds price_1 .. price_10.
ALPHA_SCALE == 1000000
LOW_VOLATILITY_THRESHOLD == 20000
HIGH_VOLATILITY_THRESHOLD == 50000
DEFAULT_ALPHA == 300000
DEFAULT_WINDOW_SIZE == 10
HISTORY_SLOTS == 10
NEWTON_ITERATIONS == 10

\* The state __init__ leaves.
OracleConstructed ==
    [alpha |-> DEFAULT_ALPHA,
     window_size |-> DEFAULT_WINDOW_SIZE,
     is_initialized |-> FALSE,
     current_price |-> 0,
     current_volatility |-> 0,
     current_regime |-> "medium",
     last_update_time |-> 0,
     ewma_mean |-> 0,
     ewma_variance |-> 0,
     price_history_count |-> 0,
     prices |-> [i \in 1..HISTORY_SLOTS |-> 0],
     last_rebalance_time |-> 0,
     last_rebalance_volatility |-> 0,
     rebalance_threshold |-> 20000]

\* The products of _update_ewma reach 10^15, beyond the 32-bit integers of
\* the model checker.  A product a * b is therefore held as its quotient and
\* its remainder by ALPHA_SCALE, both computed from the base-1000 digits of
\* a and b; the values are those of the UInt64 expressions.
MulLo(a, b) ==
    LET a0 == a % 1000
        a1 == (a \div 1000) % 1000
        b0 == b % 1000
        b1 == (b \div 1000) % 1000
    IN  ((a1 * b0 + a0 * b1) * 1000 + a0 * b0) % ALPHA_SCALE

MulHi(a, b) ==
    LET a0 == a % 1000
        a1 == (a \div 1000) % 1000
        a2 == a \div ALPHA_SCALE
        b0 == b % 1000
        b1 == (b \div 1000) % 1000
        b2 == b \div ALPHA_SCALE
    IN  a2 * b2 * ALPHA_SCALE + (a2 * b1 + a1 * b2) * 1000
        + a2 * b0 + a1 * b1 + a0 * b2
        + ((a1 * b0 + a0 * b1) * 1000 + a0 * b0) \div ALPHA_SCALE

\* (a * b + c * d) // 1_000_000
scaled_sum(a, b, c, d) ==
    MulHi(a, b) + MulHi(c, d) + (MulLo(a, b) + MulLo(c, d)) \div ALPHA_SCALE

\* _calculate_return: the size of the price change over the old price, in
\* millionths; the branch taken does not change the sign of the result.
calculate_return(old_price, new_price) ==
    IF old_price = 0 THEN 0
    ELSE IF new_price >= old_price
    THEN ((new_price - old_price) * VOLATILITY_SCALE) \div old_price
    ELSE ((old_price - new_price) * VOLATILITY_SCALE) \div old_price

\* _update_ewma: the new ewma_mean and ewma_variance.
update_ewma(o, return_value) ==
    LET alpha_scaled == o.alpha
        one_minus_alpha == ALPHA_SCALE - alpha_scaled
        new_ewma_mean == scaled_sum(alpha_scaled, return_value,
                                    one_minus_alpha, o.ewma_mean)
        squared_deviation ==
            IF return_value >= new_ewma_mean
            THEN (return_value - new_ewma_mean) * (return_value - new_ewma_mean)
            ELSE (new_ewma_mean - return_value) * (new_ewma_mean - return_value)
        new_ewma_variance == scaled_sum(alpha_scaled, squared_deviation,
                                        one_minus_alpha, o.ewma_variance)
    IN  [o EXCEPT !.ewma_mean = new_ewma_mean,
                  !.ewma_variance = new_ewma_variance]

\* The loop of _sqrt, entered for the i-th time with the values z and y.
RECURSIVE newton(_, _, _, _)
newton(x, z, y, i) ==
    IF i = NEWTON_ITERATIONS THEN z
    ELSE IF y >= z THEN z
    ELSE newton(x, y, (y + x \div y) \div 2, i + 1)

sqrt(x) == IF x = 0 THEN 0 ELSE newton(x, x, (x + 1) \div 2, 0)

\* Mutant of calculate_volatility: the volatility is left as it was.
calculate_volatility_stale(o) == o

\* _calculate_volatility
calculate_volatility(o) ==
    [o EXCEPT !.current_volatility = sqrt(o.ewma_variance)]

\* _update_regime
update_regime(o) ==
    [o EXCEPT !.current_regime =
        IF o.current_volatility < LOW_VOLATILITY_THRESHOLD THEN "low"
        ELSE IF o.current_volatility > HIGH_VOLATILITY_THRESHOLD THEN "high"
        ELSE "medium"]

\* _add_to_price_history: the prices shift by one slot, the newest first.
add_to_price_history(o, price) ==
    [o EXCEPT !.prices = [i \in 1..HISTORY_SLOTS |->
                             IF i = 1 THEN price ELSE o.prices[i - 1]],
              !.price_history_count =
                  IF o.price_history_count < HISTORY_SLOTS
                  THEN o.price_history_count + 1
                  ELSE o.price_history_count]

\* ------------------------------------------------------ backend calculator
\* refactored/backend_service.py, VolatilityCalculator.  Its floats are held
\* to six decimal places, as signed counts of millionths; volatility, a
\* percentage, is held in hundredths of a percent.
CALCULATOR_ALPHA == 300000
CALCULATOR_WINDOW_SIZE == 10
DEFAULT_VOLATILITY == 300
CALCULATOR_LOW == 200
CALCULATOR_HIGH == 500

\* The state __init__ leaves.
CalculatorConstructed ==
    [alpha |-> CALCULATOR_ALPHA,
     window_size |-> CALCULATOR_WINDOW_SIZE,
     ewma_mean |-> 0,
     ewma_variance |-> 0,
     price_history |-> <<>>]

\* math.sqrt on a value x >= 0, rounded down.
RECURSIVE math_sqrt_from(_, _)
math_sqrt_from(x, z) ==
    LET y == (z + x \div z) \div 2
    IN  IF y >= z THEN z ELSE math_sqrt_from(x, y)

math_sqrt(x) == IF x = 0 THEN 0 ELSE math_sqrt_from(x, x)

\* _classify_regime
classify_regime(volatility) ==
    IF volatility < CALCULATOR_LOW THEN "low"
    ELSE IF volatility > CALCULATOR_HIGH THEN "high"
    ELSE "medium"

\* Lines 74-83 of update_price: the EWMA after one more return.
calculator_update_ewma(c, return_value) ==
    LET new_ewma_mean == scaled_sum(c.alpha, return_value,
                                    ALPHA_SCALE - c.alpha, c.ewma_mean)
        deviation == IF return_value >= new_ewma_mean
                     THEN return_value - new_ewma_mean
                     ELSE new_ewma_mean - return_value
        squared_deviation == MulHi(deviation, deviation)
    IN  [c EXCEPT !.ewma_mean = new_ewma_mean,
                  !.ewma_variance = scaled_sum(c.alpha, squared_deviation,
                                        ALPHA_SCALE - c.alpha, c.ewma_variance)]

\* Lines 86-88 of update_price: the history keeps window_size prices.
calculator_append(c, new_price) ==
    LET appended == Append(c.price_history, new_price)
    IN  [c EXCEPT !.price_history = IF Len(appended) > c.window_size
                                    THEN Tail(appended) ELSE appended]

\* ------------------------------------------------------ backend decisions
\* refactored/backend_service.py, RebalancingEngine and SeltraBackendService.
\* Its floats are held as integers: a percentage in ten-thousandths of a
\* percent (the contract's scale: 1.5 is 15000, 2.0 is 20000), an efficiency
\* in hundredths (60 is 6000), a factor in ten-thousandths (0.4 is 4000), a
\* price and a liquidity in thousandths, rounded down.

\* RebalancingEngine.should_rebalance of the backend, lines 300-312.
backend_should_rebalance(current_efficiency, time_since_last, volatility_change) ==
    IF current_efficiency < 6000 THEN TRUE
    ELSE IF volatility_change > 20000 THEN TRUE
    ELSE IF time_since_last > 3600 THEN TRUE
    ELSE FALSE

\* RebalancingEngine.classify_volatility_regime of the backend.
backend_classify_volatility_regime(volatility) ==
    IF volatility < 15000
    THEN [regime |-> "ultra_low", factor |-> 4000, num_ranges |-> 2]
    ELSE IF volatility < 30000
    THEN [regime |-> "low", factor |-> 6000, num_ranges |-> 3]
    ELSE IF volatility < 60000
    THEN [regime |-> "medium", factor |-> 10000, num_ranges |-> 4]
    ELSE IF volatility < 120000
    THEN [regime |-> "high", factor |-> 18000, num_ranges |-> 5]
    ELSE [regime |-> "extreme", factor |-> 25000, num_ranges |-> 6]

\* RebalancingEngine.calculate_optimal_ranges of the backend: a list of
\* num_ranges ranges.  The arithmetic is signed and abs is the absolute value.
backend_calculate_optimal_ranges(current_price, volatility, total_liquidity) ==
    LET c == backend_classify_volatility_regime(volatility)
        percent == Min(c.factor \div 100, 50)
        price_range == (current_price * percent) \div 100
        min_price0 == current_price - price_range
        max_price0 == current_price + price_range
        min_price == IF min_price0 <= 0 THEN current_price \div 2 ELSE min_price0
        max_price == IF max_price0 <= min_price
                     THEN min_price + current_price \div 10
                     ELSE max_price0
        range_size == (max_price - min_price) \div c.num_ranges
        max_distance == (max_price - min_price) \div 2
        base_allocation == total_liquidity \div c.num_ranges
        range(i) ==
            LET lower == min_price + (i * range_size)
                upper == min_price + ((i + 1) * range_size)
                range_center == (lower + upper) \div 2
                distance == IF range_center >= current_price
                            THEN range_center - current_price
                            ELSE current_price - range_center
                proximity_bonus ==
                    IF max_distance > 0
                    THEN (base_allocation * (max_distance - distance))
                             \div (2 * max_distance)
                    ELSE base_allocation \div 2
            IN  Range(lower, upper, base_allocation + proximity_bonus)
    IN  [i \in 1..c.num_ranges |-> range(i - 1)]

\* ------------------------------------------------------ proposal validation
\* Lines 219-236 of validate_rebalance_proposal, on the two parsed arrays.
\* The gain is a UInt64 difference: the call fails when the proposed ranges
\* score below the current ones.
validate_proposal(current_ranges, proposed_ranges, current_price, volatility) ==
    LET verdict == validate_safety(current_ranges, proposed_ranges)
        current_efficiency ==
            calculate_efficiency_score(current_ranges, current_price, volatility)
        proposed_efficiency ==
            calculate_efficiency_score(proposed_ranges, current_price, volatility)
        efficiency_gain == USub(proposed_efficiency.score, current_efficiency.score)
        Answer(ok, result, reason, gain) ==
            [ok |-> ok, result |-> result, reason |-> reason,
             efficiency_gain |-> gain]
    IN  IF ~verdict.ok THEN Answer(FALSE, "failed", verdict.reason, 0)
        ELSE IF ~verdict.is_safe THEN Answer(TRUE, "UNSAFE", verdict.reason, 0)
        ELSE IF ~current_efficiency.ok \/ ~proposed_efficiency.ok
        THEN Answer(FALSE, "failed", "division by zero or uint64 underflow", 0)
        ELSE IF efficiency_gain = Underflow
        THEN Answer(FALSE, "failed", "uint64 underflow", 0)
        ELSE IF efficiency_gain < 100
        THEN Answer(TRUE, "INSUFFICIENT_GAIN", "", efficiency_gain)
        ELSE Answer(TRUE, "VALID", "", efficiency_gain)

\* _format_ranges_result: the string names the regime, the factor and the
\* ranges that hold liquidity, in slot order.
format_ranges_result(ranges, regime, concentration_factor) ==
    [regime |-> regime, factor |-> concentration_factor,
     ranges |-> SelectSeq(ranges, LAMBDA r : r.liquidity > 0)]

\* ------------------------------------------------------ rebalancing state
\* refactored/rebalancing_state/contract.py, RebalancingState: the engine
\* stripped down to its state.  The state __init__ leaves.
RebalancingStateConstructed ==
    [is_initialized |-> FALSE,
     admin_address |-> "creator",
     authorized_pool |-> 0,
     rebalance_cooldown |-> DEFAULT_COOLDOWN,
     last_rebalance_time |-> 0,
     total_rebalances |-> 0,
     successful_rebalances |-> 0,
     current_ranges |-> ""]

\* ------------------------------------------------------ initial state
Init ==
    /\ is_initialized = FALSE
    /\ authorized_pool = 0
    /\ max_slippage = DEFAULT_MAX_SLIPPAGE
    /\ rebalance_cooldown = DEFAULT_COOLDOWN
    /\ min_range_size = DEFAULT_MIN_RANGE_SIZE
    /\ last_rebalance_time = 0
    /\ last_trigger_volatility = 0
    /\ total_rebalances = 0
    /\ successful_rebalances = 0
    /\ failed_rebalances = 0
    /\ total_efficiency_gain = 0
    /\ average_efficiency_gain = 0
    /\ now = 0
    /\ oracle = OracleConstructed
    /\ calculator = CalculatorConstructed
    /\ rebalancing_state = RebalancingStateConstructed
    /\ call = NoCall
    /\ ret = NoRet

\* ------------------------------------------------------ engine operations
\* The arguments the calls are tried with.
PoolIds == {0, 1, 2}
Slippages == {0, 100, 1001}
Cooldowns == {0, 300, 4000}
MinRangeSizes == {0, 50}
Efficiencies == {5999, 6000}
TimesSinceLast == {299, 300, 3600, 3601, 3999, 4000}
VolatilityChanges == {20000, 20001}
RangeStrings == {"", "[]", "[[1000,1100,1000]]", "[[1100,1000,1000]]"}
TickSteps == {100, 300}

\* Mutant of initialize_engine: an initialized engine can be initialized again.
initialize_engine_again(authorized_pool_id, slippage, cooldown_seconds, range_size) ==
    LET accepted == /\ authorized_pool_id > 0
                    /\ slippage > 0 /\ slippage <= 1000
                    /\ cooldown_seconds > 0
                    /\ range_size > 0
    IN  /\ call' = [op |-> "initialize_engine",
                    authorized_pool_id |-> authorized_pool_id,
                    max_slippage |-> slippage,
                    cooldown_seconds |-> cooldown_seconds,
                    min_range_size |-> range_size]
        /\ ret' = [ok |-> accepted, op |-> "initialize_engine"]
        /\ IF accepted
           THEN /\ authorized_pool' = authorized_pool_id
                /\ max_slippage' = slippage
                /\ rebalance_cooldown' = cooldown_seconds
                /\ min_range_size' = range_size
                /\ is_initialized' = TRUE
           ELSE UNCHANGED config
        /\ UNCHANGED <<history, now, estimators, rebalancing_state>>

\* initialize_engine: a failed assert fails the call and changes nothing.
initialize_engine(authorized_pool_id, slippage, cooldown_seconds, range_size) ==
    LET accepted == /\ ~is_initialized
                    /\ authorized_pool_id > 0
                    /\ slippage > 0 /\ slippage <= 1000
                    /\ cooldown_seconds > 0
                    /\ range_size > 0
    IN  /\ call' = [op |-> "initialize_engine",
                    authorized_pool_id |-> authorized_pool_id,
                    max_slippage |-> slippage,
                    cooldown_seconds |-> cooldown_seconds,
                    min_range_size |-> range_size]
        /\ ret' = [ok |-> accepted, op |-> "initialize_engine"]
        /\ IF accepted
           THEN /\ authorized_pool' = authorized_pool_id
                /\ max_slippage' = slippage
                /\ rebalance_cooldown' = cooldown_seconds
                /\ min_range_size' = range_size
                /\ is_initialized' = TRUE
           ELSE UNCHANGED config
        /\ UNCHANGED <<history, now, estimators, rebalancing_state>>

\* should_rebalance: a read-only call.
should_rebalance(current_efficiency, time_since_last, volatility_change) ==
    /\ call' = [op |-> "should_rebalance",
                current_efficiency |-> current_efficiency,
                time_since_last |-> time_since_last,
                volatility_change |-> volatility_change]
    /\ ret' = [ok |-> is_initialized, op |-> "should_rebalance",
               result |-> is_initialized /\
                          should_rebalance_decision(current_efficiency,
                              time_since_last, volatility_change)]
    /\ UNCHANGED <<config, history, now, estimators, rebalancing_state>>

\* Mutant of cooldown_active: the cooldown lasts half as long.
cooldown_halved(elapsed) == elapsed < rebalance_cooldown \div 2

\* The cooldown check of execute_rebalance, on the time elapsed since
\* last_rebalance_time.
cooldown_active(elapsed) == elapsed < rebalance_cooldown

\* execute_rebalance, called by application caller_app_id.
execute_rebalance(caller_app_id, old_ranges_json, new_ranges_json) ==
    LET current_time == now
        elapsed == USub(current_time, last_rebalance_time)
        old_ranges == parse_ranges(old_ranges_json)
        new_ranges == parse_ranges(new_ranges_json)
        verdict == validate_safety(old_ranges, new_ranges)
        asserted == is_initialized /\ caller_app_id = authorized_pool
        op == [op |-> "execute_rebalance", caller_app_id |-> caller_app_id,
               old_ranges_json |-> old_ranges_json,
               new_ranges_json |-> new_ranges_json, current_time |-> current_time]
    IN  /\ call' = op
        /\ IF ~asserted \/ elapsed = Underflow
           THEN /\ ret' = [ok |-> FALSE, op |-> "execute_rebalance",
                           result |-> "failed"]
                /\ UNCHANGED history
           ELSE IF cooldown_active(elapsed)
           THEN /\ ret' = [ok |-> TRUE, op |-> "execute_rebalance",
                           result |-> "REBALANCE_COOLDOWN_ACTIVE"]
                /\ UNCHANGED history
           ELSE IF ~verdict.ok
           THEN /\ ret' = [ok |-> FALSE, op |-> "execute_rebalance",
                           result |-> "failed"]
                /\ UNCHANGED history
           ELSE IF ~verdict.is_safe
           THEN /\ failed_rebalances < MaxRebalances
                /\ ret' = [ok |-> TRUE, op |-> "execute_rebalance",
                           result |-> "EXECUTION_FAILED"]
                /\ failed_rebalances' = failed_rebalances + 1
                /\ UNCHANGED <<last_rebalance_time, last_trigger_volatility,
                               total_rebalances, successful_rebalances,
                               total_efficiency_gain, average_efficiency_gain>>
           ELSE /\ total_rebalances < MaxRebalances
                /\ ret' = [ok |-> TRUE, op |-> "execute_rebalance",
                           result |-> "REBALANCE_EXECUTED_SUCCESSFULLY"]
                /\ last_rebalance_time' = current_time
                /\ total_rebalances' = total_rebalances + 1
                /\ successful_rebalances' = successful_rebalances + 1
                /\ UNCHANGED <<last_trigger_volatility, failed_rebalances,
                               total_efficiency_gain, average_efficiency_gain>>
        /\ UNCHANGED <<config, now, estimators, rebalancing_state>>

\* The arguments the two read-only calls below are tried with.
ProposalStrings == {"[]", "[[1000,1100,1000]]"}
OptimalPrices == {0, 2, 1000}
OptimalVolatilities == {5000, 150000}
OptimalLiquidities == {0, 7}

\* validate_rebalance_proposal: a read-only call.
validate_rebalance_proposal(current_ranges_json, proposed_ranges_json, current_price, volatility) ==
    LET current_ranges == parse_ranges(current_ranges_json)
        proposed_ranges == parse_ranges(proposed_ranges_json)
        v == validate_proposal(current_ranges, proposed_ranges, current_price,
                               volatility)
    IN  /\ call' = [op |-> "validate_rebalance_proposal",
                    current_ranges_json |-> current_ranges_json,
                    proposed_ranges_json |-> proposed_ranges_json,
                    current_price |-> current_price, volatility |-> volatility]
        /\ ret' = [ok |-> is_initialized /\ v.ok,
                   op |-> "validate_rebalance_proposal",
                   result |-> IF is_initialized THEN v.result ELSE "failed",
                   efficiency_gain |-> v.efficiency_gain]
        /\ UNCHANGED <<config, history, now, estimators, rebalancing_state>>

\* calculate_optimal_ranges: a read-only call.
calculate_optimal_ranges(current_price, volatility, total_liquidity) ==
    LET asserted == /\ is_initialized
                    /\ current_price > 0
                    /\ volatility >= 0
                    /\ total_liquidity > 0
        c == classify_volatility_regime(volatility)
        r == calculate_ranges_for_regime(current_price, c.factor, c.num_ranges,
                                         total_liquidity)
    IN  /\ call' = [op |-> "calculate_optimal_ranges",
                    current_price |-> current_price, volatility |-> volatility,
                    total_liquidity |-> total_liquidity]
        /\ ret' = IF asserted /\ r.ok
                  THEN [ok |-> TRUE, op |-> "calculate_optimal_ranges",
                        result |-> format_ranges_result(r.ranges, c.regime, c.factor)]
                  ELSE [ok |-> FALSE, op |-> "calculate_optimal_ranges",
                        result |-> format_ranges_result(<<>>, "none", 0)]
        /\ UNCHANGED <<config, history, now, estimators, rebalancing_state>>

\* Global.latest_timestamp moves on between calls.
Tick(step) ==
    /\ now + step <= MaxTime
    /\ now' = now + step
    /\ UNCHANGED <<config, history, estimators, rebalancing_state, call, ret>>

Next ==
    \/ \E p \in PoolIds, s \in Slippages, c \in Cooldowns, m \in MinRangeSizes :
          initialize_engine(p, s, c, m)
    \/ \E e \in Efficiencies, t \in TimesSinceLast, v \in VolatilityChanges :
          should_rebalance(e, t, v)
    \/ \E a \in PoolIds, o \in RangeStrings, n \in RangeStrings :
          execute_rebalance(a, o, n)
    \/ \E c \in ProposalStrings, p \in ProposalStrings :
          validate_rebalance_proposal(c, p, 1000, 50)
    \/ \E p \in OptimalPrices, v \in OptimalVolatilities, q \in OptimalLiquidities :
          calculate_optimal_ranges(p, v, q)
    \/ \E d \in TickSteps : Tick(d)

Spec == Init /\ [][Next]_vars

\* ------------------------------------------------------ oracle operations
\* The arguments the calls are tried with.
OraclePrices == {0, 990, 1000, 1010}
\* initialize_oracle is tried with arguments that pass every assert, alpha
\* and window_size on their bounds, and with arguments that fail one.
AcceptableArguments ==
    {<<1000, 1, 10>>, <<1000, 300000, 1>>, <<1000, 1000000, 50>>}
RejectableArguments ==
    {<<0, 300000, 10>>, <<1000, 0, 10>>, <<1000, 1000001, 10>>,
     <<1000, 300000, 0>>, <<1000, 300000, 51>>, <<1000, 0, 51>>}
OracleTickStep == 60

\* Mutant of initialize_oracle_asserts: an alpha of 0 is accepted.
initialize_oracle_asserts_alpha_0(o, initial_price, alpha, window_size) ==
    /\ ~o.is_initialized
    /\ initial_price > 0
    /\ alpha >= 0 /\ alpha <= 1000000
    /\ window_size > 0 /\ window_size <= 50

\* The asserts of initialize_oracle.
initialize_oracle_asserts(o, initial_price, alpha, window_size) ==
    /\ ~o.is_initialized
    /\ initial_price > 0
    /\ alpha > 0 /\ alpha <= 1000000
    /\ window_size > 0 /\ window_size <= 50

\* initialize_oracle: a failed assert fails the call and changes nothing.
initialize_oracle(initial_price, alpha, window_size) ==
    LET accepted == initialize_oracle_asserts(oracle, initial_price, alpha,
                                              window_size)
    IN  /\ call' = [op |-> "initialize_oracle", initial_price |-> initial_price,
                    alpha |-> alpha, window_size |-> window_size]
        /\ ret' = [ok |-> accepted, op |-> "initialize_oracle"]
        /\ oracle' =
             IF accepted
             THEN [oracle EXCEPT
                     !.alpha = alpha,
                     !.window_size = window_size,
                     !.current_price = initial_price,
                     !.last_update_time = now,
                     !.ewma_mean = 0,
                     !.ewma_variance = 0,
                     !.prices = [oracle.prices EXCEPT ![1] = initial_price],
                     !.price_history_count = 1,
                     !.current_volatility = LOW_VOLATILITY_THRESHOLD \div 2,
                     !.current_regime = "medium",
                     !.is_initialized = TRUE]
             ELSE oracle
        /\ UNCHANGED <<config, history, now, calculator, rebalancing_state>>

\* update_price.  The oracle takes MaxUpdates prices after the initial one.
update_price(new_price) ==
    LET asserted == oracle.is_initialized /\ new_price > 0
        price_change == calculate_return(oracle.current_price, new_price)
        recalculated ==
            IF oracle.current_price > 0
            THEN update_regime(calculate_volatility(
                                   update_ewma(oracle, price_change)))
            ELSE oracle
        recorded == add_to_price_history(recalculated, new_price)
    IN  /\ asserted => oracle.price_history_count <= MaxUpdates
        /\ call' = [op |-> "update_price", new_price |-> new_price]
        /\ ret' = [ok |-> asserted, op |-> "update_price"]
        /\ oracle' = IF asserted
                     THEN [recorded EXCEPT !.current_price = new_price,
                                           !.last_update_time = now]
                     ELSE oracle
        /\ UNCHANGED <<config, history, now, calculator, rebalancing_state>>

\* should_rebalance of the oracle: a read-only call.
oracle_should_rebalance ==
    LET time_since_rebalance == USub(now, oracle.last_rebalance_time)
        volatility_change ==
            IF oracle.current_volatility >= oracle.last_rebalance_volatility
            THEN oracle.current_volatility - oracle.last_rebalance_volatility
            ELSE oracle.last_rebalance_volatility - oracle.current_volatility
        returns == oracle.is_initialized /\ time_since_rebalance # Underflow
    IN  /\ call' = [op |-> "oracle.should_rebalance"]
        /\ ret' = [ok |-> returns, op |-> "oracle.should_rebalance",
                   result |-> /\ returns
                              /\ ~(time_since_rebalance < 60)
                              /\ \/ oracle.last_rebalance_volatility = 0
                                 \/ volatility_change >= oracle.rebalance_threshold]
        /\ UNCHANGED <<config, history, now, estimators, rebalancing_state>>

\* mark_rebalance_completed
mark_rebalance_completed ==
    /\ call' = [op |-> "mark_rebalance_completed"]
    /\ ret' = [ok |-> oracle.is_initialized, op |-> "mark_rebalance_completed"]
    /\ oracle' = IF oracle.is_initialized
                 THEN [oracle EXCEPT
                         !.last_rebalance_time = now,
                         !.last_rebalance_volatility = oracle.current_volatility]
                 ELSE oracle
    /\ UNCHANGED <<config, history, now, calculator, rebalancing_state>>

\* Global.latest_timestamp moves on between the calls of the oracle.
OracleTick ==
    /\ now + OracleTickStep <= MaxOracleTime
    /\ now' = now + OracleTickStep
    /\ UNCHANGED <<config, history, estimators, rebalancing_state, call, ret>>

NextOracle ==
    \/ \E a \in AcceptableArguments \cup RejectableArguments :
          initialize_oracle(a[1], a[2], a[3])
    \/ \E p \in OraclePrices : update_price(p)
    \/ oracle_should_rebalance
    \/ mark_rebalance_completed
    \/ OracleTick

SpecOracle == Init /\ [][NextOracle]_vars

\* ------------------------------------------------------ calculator operations
CalculatorPrices == {0, 90, 100, 110}

\* VolatilityCalculator.update_price.  The division by the last price of the
\* history raises ZeroDivisionError when that price is 0, before any field
\* is written.  The calculator takes MaxUpdates prices after the first one.
calculator_update_price(new_price) ==
    LET history_length == Len(calculator.price_history)
        old_price == calculator.price_history[history_length]
        raises == history_length > 0 /\ old_price = 0
        return_value == ((new_price - old_price) * ALPHA_SCALE) \div old_price
        updated == IF history_length > 0
                   THEN calculator_update_ewma(calculator, return_value)
                   ELSE calculator
        volatility == IF history_length > 0
                      THEN math_sqrt(updated.ewma_variance * 100)
                      ELSE DEFAULT_VOLATILITY
    IN  /\ history_length <= MaxUpdates
        /\ call' = [op |-> "calculator.update_price", new_price |-> new_price]
        /\ IF raises
           THEN /\ ret' = [ok |-> FALSE, op |-> "calculator.update_price",
                           volatility |-> 0, regime |-> "none"]
                /\ UNCHANGED calculator
           ELSE /\ ret' = [ok |-> TRUE, op |-> "calculator.update_price",
                           volatility |-> volatility,
                           regime |-> classify_regime(volatility)]
                /\ calculator' = calculator_append(updated, new_price)
        /\ UNCHANGED <<config, history, now, oracle, rebalancing_state>>

NextCalculator == \E p \in CalculatorPrices : calculator_update_price(p)

SpecCalculator == Init /\ [][NextCalculator]_vars

\* ------------------------------------------------------ rebalancing state operations
\* The calls of RebalancingState, each made by the application caller, the
\* value of Global.caller_app_id; 0 is a call made by an account.
StateCallers == {0, 1, 2}
StatePoolIds == {0, 1}
StateCooldowns == {0, 300}
StateTimes == {299, 300}
StateRangeStrings == {"", "[]", "[[1000,1100,1000]]"}

\* The asserts of update_ranges_from_backend; none of them is on the caller.
update_ranges_asserts(new_ranges_json) ==
    /\ rebalancing_state.is_initialized
    /\ Len(new_ranges_json) > 0

\* RebalancingState.initialize_engine
state_initialize_engine(caller, authorized_pool_id, cooldown_seconds) ==
    LET accepted == /\ ~rebalancing_state.is_initialized
                    /\ authorized_pool_id > 0
                    /\ cooldown_seconds > 0
    IN  /\ call' = [op |-> "state.initialize_engine", caller |-> caller,
                    authorized_pool_id |-> authorized_pool_id,
                    cooldown_seconds |-> cooldown_seconds]
        /\ ret' = [ok |-> accepted, op |-> "state.initialize_engine"]
        /\ rebalancing_state' =
             IF accepted
             THEN [rebalancing_state EXCEPT
                     !.authorized_pool = authorized_pool_id,
                     !.rebalance_cooldown = cooldown_seconds,
                     !.is_initialized = TRUE]
             ELSE rebalancing_state
        /\ UNCHANGED <<config, history, now, estimators>>

\* RebalancingState.should_rebalance: a read-only call.
state_should_rebalance(caller, time_since_last) ==
    /\ call' = [op |-> "state.should_rebalance", caller |-> caller,
                time_since_last |-> time_since_last]
    /\ ret' = [ok |-> rebalancing_state.is_initialized,
               op |-> "state.should_rebalance",
               result |-> /\ rebalancing_state.is_initialized
                          /\ time_since_last >= rebalancing_state.rebalance_cooldown]
    /\ UNCHANGED <<config, history, now, estimators, rebalancing_state>>

\* RebalancingState.update_ranges_from_backend
update_ranges_from_backend(caller, new_ranges_json) ==
    LET asserted == update_ranges_asserts(new_ranges_json)
    IN  /\ call' = [op |-> "state.update_ranges_from_backend", caller |-> caller,
                    new_ranges_json |-> new_ranges_json]
        /\ ret' = [ok |-> asserted, op |-> "state.update_ranges_from_backend"]
        /\ rebalancing_state' =
             IF asserted
             THEN [rebalancing_state EXCEPT !.current_ranges = new_ranges_json]
             ELSE rebalancing_state
        /\ UNCHANGED <<config, history, now, estimators>>

\* RebalancingState.execute_rebalance
state_execute_rebalance(caller, old_ranges_json, new_ranges_json) ==
    LET current_time == now
        elapsed == USub(current_time, rebalancing_state.last_rebalance_time)
        asserted == /\ rebalancing_state.is_initialized
                    /\ caller = rebalancing_state.authorized_pool
        answer(ok, result) ==
            [ok |-> ok, op |-> "state.execute_rebalance", result |-> result]
    IN  /\ call' = [op |-> "state.execute_rebalance", caller |-> caller,
                    old_ranges_json |-> old_ranges_json,
                    new_ranges_json |-> new_ranges_json]
        /\ IF ~asserted \/ elapsed = Underflow
           THEN /\ ret' = answer(FALSE, "failed")
                /\ UNCHANGED rebalancing_state
           ELSE IF elapsed < rebalancing_state.rebalance_cooldown
           THEN /\ ret' = answer(TRUE, "REBALANCE_COOLDOWN_ACTIVE")
                /\ UNCHANGED rebalancing_state
           ELSE IF Len(new_ranges_json) = 0
           THEN /\ ret' = answer(TRUE, "EXECUTION_FAILED")
                /\ UNCHANGED rebalancing_state
           ELSE /\ rebalancing_state.total_rebalances < MaxRebalances
                /\ ret' = answer(TRUE, "REBALANCE_EXECUTED_SUCCESSFULLY")
                /\ rebalancing_state' =
                     [rebalancing_state EXCEPT
                        !.current_ranges = new_ranges_json,
                        !.last_rebalance_time = current_time,
                        !.total_rebalances = @ + 1,
                        !.successful_rebalances = @ + 1]
        /\ UNCHANGED <<config, history, now, estimators>>

NextState ==
    \/ \E a \in StateCallers, p \in StatePoolIds, c \in StateCooldowns :
          state_initialize_engine(a, p, c)
    \/ \E a \in StateCallers, t \in StateTimes : state_should_rebalance(a, t)
    \/ \E a \in StateCallers, n \in StateRangeStrings :
          update_ranges_from_backend(a, n)
    \/ \E a \in StateCallers, n \in StateRangeStrings :
          state_execute_rebalance(a, "[]", n)
    \/ \E d \in TickSteps : Tick(d)

SpecState == Init /\ [][NextState]_vars

\* ------------------------------------------------------ engine and oracle
\* The two contracts deployed side by side under one clock: the pool has the
\* engine rebalance and the oracle told of it.
SystemPrices == {990}
SystemCallers == {1, 2}

NextSystem ==
    \/ initialize_engine(1, DEFAULT_MAX_SLIPPAGE, DEFAULT_COOLDOWN,
                         DEFAULT_MIN_RANGE_SIZE)
    \/ initialize_oracle(1000, DEFAULT_ALPHA, DEFAULT_WINDOW_SIZE)
    \/ \E p \in SystemPrices : update_price(p)
    \/ \E a \in SystemCallers : execute_rebalance(a, "[]", "[]")
    \/ mark_rebalance_completed
    \/ \E d \in TickSteps : Tick(d)

SpecSystem == Init /\ [][NextSystem]_vars

\* ------------------------------------------------------ the pure functions
\* Each subroutine is applied to arguments drawn from bounded sets.  The
\* engine is in the state initialize_engine leaves it in.
Initialized(range_size) ==
    /\ is_initialized = TRUE
    /\ authorized_pool = 1
    /\ max_slippage = DEFAULT_MAX_SLIPPAGE
    /\ rebalance_cooldown = DEFAULT_COOLDOWN
    /\ min_range_size = range_size
    /\ last_rebalance_time = 0
    /\ last_trigger_volatility = 0
    /\ total_rebalances = 0
    /\ successful_rebalances = 0
    /\ failed_rebalances = 0
    /\ total_efficiency_gain = 0
    /\ average_efficiency_gain = 0
    /\ now = 0
    /\ oracle = OracleConstructed
    /\ calculator = CalculatorConstructed
    /\ rebalancing_state = RebalancingStateConstructed

\* The range arrays whose first MaxFilledSlots slots are drawn from pool.
RangeArrays(pool) ==
    { [i \in 1..NUM_SLOTS |-> IF i <= MaxFilledSlots THEN f[i] ELSE EmptyRange] :
        f \in [1..MaxFilledSlots -> pool] }

\* -- _classify_volatility_regime
Thresholds ==
    {ULTRA_LOW_THRESHOLD, LOW_THRESHOLD, MEDIUM_THRESHOLD, HIGH_THRESHOLD}
Volatilities ==
    {k * 1000 : k \in 0..MaxVolSteps} \cup {t + d : t \in Thresholds, d \in {-1, 0, 1}}

Call_classify_volatility_regime(volatility) ==
    LET c == classify_volatility_regime(volatility)
    IN  /\ call' = [op |-> "classify_volatility_regime", volatility |-> volatility]
        /\ ret' = [ok |-> TRUE, op |-> "classify_volatility_regime",
                   regime |-> c.regime, factor |-> c.factor,
                   num_ranges |-> c.num_ranges]
        /\ UNCHANGED <<config, history, now, estimators, rebalancing_state>>

InitClassify == Initialized(DEFAULT_MIN_RANGE_SIZE) /\ call = NoCall /\ ret = NoRet
NextClassify == \E v \in Volatilities : Call_classify_volatility_regime(v)
SpecClassify == InitClassify /\ [][NextClassify]_vars

\* -- _calculate_ranges_for_regime
RegimeSamples == {5000, 20000, 45000, 90000, 150000}
Prices == (1..MaxSmallPrice) \cup {1000, 100000}
Liquidities == {1, 7, 999, 1000, 6000, 100000}

AllocateCalls ==
    { [op |-> "calculate_ranges_for_regime", current_price |-> p,
       concentration_factor |-> classify_volatility_regime(v).factor,
       num_ranges |-> classify_volatility_regime(v).num_ranges,
       total_liquidity |-> q] :
        p \in Prices, v \in RegimeSamples, q \in Liquidities }

Call_calculate_ranges_for_regime ==
    LET r == calculate_ranges_for_regime(call.current_price,
                 call.concentration_factor, call.num_ranges, call.total_liquidity)
    IN  /\ call.op = "calculate_ranges_for_regime"
        /\ ret' = [ok |-> r.ok, op |-> "calculate_ranges_for_regime",
                   ranges |-> r.ranges]
        /\ UNCHANGED <<config, history, now, estimators, rebalancing_state, call>>

\* The same arguments for the harness.
LogicAllocateCalls ==
    { [c EXCEPT !.op = "logic.calculate_ranges_for_regime"] : c \in AllocateCalls }

Call_logic_calculate_ranges_for_regime ==
    /\ call.op = "logic.calculate_ranges_for_regime"
    /\ ret' = [ok |-> TRUE, op |-> "logic.calculate_ranges_for_regime",
               ranges |-> logic_calculate_ranges_for_regime(call.current_price,
                              call.concentration_factor, call.num_ranges,
                              call.total_liquidity)]
    /\ UNCHANGED <<config, history, now, estimators, rebalancing_state, call>>

InitAllocate ==
    /\ Initialized(DEFAULT_MIN_RANGE_SIZE)
    /\ call \in AllocateCalls \cup LogicAllocateCalls
    /\ ret = NoRet
NextAllocate ==
    Call_calculate_ranges_for_regime \/ Call_logic_calculate_ranges_for_regime
SpecAllocate == InitAllocate /\ [][NextAllocate]_vars

\* -- _calculate_efficiency_score
ScoredRanges ==
    { Range(b[1], b[2], q) :
        b \in {<<900, 1000>>, <<1000, 1000>>, <<1000, 1020>>, <<1000, 1022>>,
               <<1500, 2500>>},
        q \in {0, 1, 1000} }
ScoredVolatilities == {0, 4, 50, 5000}

ScoreCalls ==
    { [op |-> "calculate_efficiency_score", ranges |-> r, current_price |-> 1000,
       volatility |-> v] :
        r \in RangeArrays(ScoredRanges), v \in ScoredVolatilities }

Call_calculate_efficiency_score ==
    LET r == calculate_efficiency_score(call.ranges, call.current_price,
                                        call.volatility)
    IN  /\ call.op = "calculate_efficiency_score"
        /\ ret' = [ok |-> r.ok, op |-> "calculate_efficiency_score",
                   score |-> r.score]
        /\ UNCHANGED <<config, history, now, estimators, rebalancing_state, call>>

\* The same arguments for the harness.
LogicScoreCalls ==
    { [c EXCEPT !.op = "logic.calculate_efficiency_score"] : c \in ScoreCalls }

Call_logic_calculate_efficiency_score ==
    /\ call.op = "logic.calculate_efficiency_score"
    /\ ret' = [ok |-> TRUE, op |-> "logic.calculate_efficiency_score",
               score |-> logic_calculate_efficiency_score(call.ranges,
                             call.current_price, call.volatility)]
    /\ UNCHANGED <<config, history, now, estimators, rebalancing_state, call>>

InitScore ==
    /\ Initialized(DEFAULT_MIN_RANGE_SIZE)
    /\ call \in ScoreCalls \cup LogicScoreCalls
    /\ ret = NoRet
NextScore ==
    Call_calculate_efficiency_score \/ Call_logic_calculate_efficiency_score
SpecScore == InitScore /\ [][NextScore]_vars

\* -- _validate_safety
OldRanges == {EmptyRange, Range(1000, 1100, 1000)}
NewRanges ==
    { Range(l, u, q) : l \in {0, 1000}, u \in {1000, 1004, 1005},
                       q \in {0, 999, 1000, 1001} }

ValidateCalls ==
    { [op |-> "validate_safety", old_ranges |-> o, new_ranges |-> n] :
        o \in RangeArrays(OldRanges), n \in RangeArrays(NewRanges) }

Call_validate_safety ==
    LET v == validate_safety(call.old_ranges, call.new_ranges)
    IN  /\ call.op = "validate_safety"
        /\ ret' = [ok |-> v.ok, op |-> "validate_safety", is_safe |-> v.is_safe,
                   reason |-> v.reason, index |-> v.index]
        /\ UNCHANGED <<config, history, now, estimators, rebalancing_state, call>>

InitValidate ==
    /\ \E m \in {DEFAULT_MIN_RANGE_SIZE, 100} : Initialized(m)
    /\ call \in ValidateCalls
    /\ ret = NoRet
NextValidate == Call_validate_safety
SpecValidate == InitValidate /\ [][NextValidate]_vars

\* -- validate_rebalance_proposal after parsing
ProposedRanges ==
    {EmptyRange, Range(1000, 1005, 1000), Range(1000, 1020, 1000),
     Range(1000, 1100, 1000)}

ProposalCalls ==
    { [op |-> "validate_proposal", current_ranges |-> c, proposed_ranges |-> p,
       current_price |-> 1000, volatility |-> v] :
        c \in RangeArrays(ProposedRanges), p \in RangeArrays(ProposedRanges),
        v \in {50} }

Call_validate_proposal ==
    LET v == validate_proposal(call.current_ranges, call.proposed_ranges,
                               call.current_price, call.volatility)
    IN  /\ call.op = "validate_proposal"
        /\ ret' = [ok |-> v.ok, op |-> "validate_proposal", result |-> v.result,
                   efficiency_gain |-> v.efficiency_gain]
        /\ UNCHANGED <<config, history, now, estimators, rebalancing_state, call>>

InitProposal ==
    Initialized(DEFAULT_MIN_RANGE_SIZE) /\ call \in ProposalCalls /\ ret = NoRet
NextProposal == Call_validate_proposal
SpecProposal == InitProposal /\ [][NextProposal]_vars


\* -- the backend's decision
BackendEfficiencies == {0, 5999, 6000, 10000}
BackendTimes == {0, 299, 300, 3600, 3601}
BackendVolatilityChanges == {0, 20000, 20001}
BackendVolatilities == {5000, 150000}

BackendCalls ==
    { [op |-> "backend.should_rebalance", current_efficiency |-> e,
       time_since_last |-> t, volatility_change |-> c] :
        e \in BackendEfficiencies, t \in BackendTimes,
        c \in BackendVolatilityChanges }
    \cup
    { [op |-> "backend.check_rebalancing", current_price |-> 100000,
       current_volatility |-> v, total_liquidity |-> 6000,
       current_efficiency |-> e, time_since_last |-> t,
       volatility_change |-> c] :
        v \in BackendVolatilities, e \in BackendEfficiencies,
        t \in BackendTimes, c \in BackendVolatilityChanges }

Call_backend_should_rebalance ==
    /\ call.op = "backend.should_rebalance"
    /\ ret' = [ok |-> TRUE, op |-> "backend.should_rebalance",
               result |-> backend_should_rebalance(call.current_efficiency,
                              call.time_since_last, call.volatility_change)]
    /\ UNCHANGED <<config, history, now, estimators, rebalancing_state, call>>

\* SeltraBackendService.check_rebalancing
Call_check_rebalancing ==
    LET triggered == backend_should_rebalance(call.current_efficiency,
                         call.time_since_last, call.volatility_change)
    IN  /\ call.op = "backend.check_rebalancing"
        /\ ret' = [ok |-> TRUE, op |-> "backend.check_rebalancing",
                   result |-> triggered,
                   optimal_ranges |->
                       IF triggered
                       THEN backend_calculate_optimal_ranges(call.current_price,
                                call.current_volatility, call.total_liquidity)
                       ELSE <<>>,
                   reason |-> IF triggered THEN "Rebalancing recommended"
                              ELSE "No rebalancing needed"]
        /\ UNCHANGED <<config, history, now, estimators, rebalancing_state, call>>

InitBackend ==
    Initialized(DEFAULT_MIN_RANGE_SIZE) /\ call \in BackendCalls /\ ret = NoRet
NextBackend == Call_backend_should_rebalance \/ Call_check_rebalancing
SpecBackend == InitBackend /\ [][NextBackend]_vars

\* -- _sqrt
\* The routine is tried on 0..MaxRadicand and on some larger values.
Radicands == (0..MaxRadicand) \cup {31327, 31328, 1000000, 14700000, 1000000000}

SqrtCalls == { [op |-> "sqrt", x |-> x] : x \in Radicands }

Call_sqrt ==
    /\ call.op = "sqrt"
    /\ ret' = [ok |-> TRUE, op |-> "sqrt", result |-> sqrt(call.x)]
    /\ UNCHANGED <<config, history, now, estimators, rebalancing_state, call>>

InitSqrt == Initialized(DEFAULT_MIN_RANGE_SIZE) /\ call \in SqrtCalls /\ ret = NoRet
NextSqrt == Call_sqrt
SpecSqrt == InitSqrt /\ [][NextSqrt]_vars
\* -- calculate_optimal_ranges at full width
\* The prices of the range calculation as UInt64 values, with 10^17, the
\* largest price whose product with 50 fits a UInt64, the price after it,
\* and the price 1.0.
WidePrices ==
    { wide_of(p) : p \in Prices } \cup
    { <<1000, 0, 0>>, <<3689, 3488147, 4191032>>, <<3689, 3488147, 4191033>>,
      FIXED_POINT_SCALE }

\* The integer a UInt64 of the model checker's width stands for.
wide_value(a) == (a[1] * WIDE_BASE + a[2]) * WIDE_BASE + a[3]

OptimalCalls ==
    { [op |-> "calculate_optimal_ranges", current_price |-> p, volatility |-> v,
       total_liquidity |-> q] :
        p \in WidePrices, v \in RegimeSamples, q \in Liquidities }

\* A price whose first range gets its distance is small: the rest of the
\* loop is computed on its integer.
Call_calculate_optimal_ranges ==
    LET asserted == /\ is_initialized
                    /\ wide_less(wide_of(0), call.current_price)
                    /\ call.volatility >= 0
                    /\ call.total_liquidity > 0
        c == classify_volatility_regime(call.volatility)
        failure == first_failure(call.current_price, c.factor, c.num_ranges)
        r == calculate_ranges_for_regime(wide_value(call.current_price), c.factor,
                                         c.num_ranges, call.total_liquidity)
    IN  /\ call.op = "calculate_optimal_ranges"
        /\ ret' = IF ~asserted
                  THEN [ok |-> FALSE, op |-> "calculate_optimal_ranges",
                        failure |-> "assert"]
                  ELSE IF failure # "none"
                  THEN [ok |-> FALSE, op |-> "calculate_optimal_ranges",
                        failure |-> failure]
                  ELSE [ok |-> r.ok, op |-> "calculate_optimal_ranges",
                        failure |-> IF r.ok THEN "none"
                                    ELSE "a later subtraction underflows"]
        /\ UNCHANGED <<config, history, now, estimators, rebalancing_state, call>>

InitOptimal ==
    Initialized(DEFAULT_MIN_RANGE_SIZE) /\ call \in OptimalCalls /\ ret = NoRet
NextOptimal == Call_calculate_optimal_ranges
SpecOptimal == InitOptimal /\ [][NextOptimal]_vars

\* ================================================================ claims

\* C1: a should_rebalance call that returns with time_since_last below the
\* cooldown returns false, whatever the efficiency and the volatility change.
C1_CooldownSuppresses ==
    (call.op = "should_rebalance" /\ ret.ok
       /\ call.time_since_last < rebalance_cooldown)
    => ret.result = FALSE

\* A call inside the cooldown with poor efficiency and a large volatility
\* change, suppressed.
C1_Witness ==
    /\ call.op = "should_rebalance" /\ ret.ok
    /\ call.time_since_last < rebalance_cooldown
    /\ call.current_efficiency < 6000
    /\ call.volatility_change > 20000
    /\ ret.result = FALSE

\* C2: outside the cooldown should_rebalance returns true exactly when
\* efficiency < 6000, volatility_change > 20000 or time_since_last > 3600,
\* each comparison strict.
C2_TriggerConditions ==
    (call.op = "should_rebalance" /\ ret.ok
       /\ call.time_since_last >= rebalance_cooldown)
    => (ret.result = (\/ call.current_efficiency < 6000
                      \/ call.volatility_change > 20000
                      \/ call.time_since_last > 3600))

\* A call outside the cooldown with all three inputs on their thresholds,
\* not triggered.
C2_Witness ==
    /\ call.op = "should_rebalance" /\ ret.ok
    /\ call.time_since_last >= rebalance_cooldown
    /\ call.current_efficiency = 6000
    /\ call.volatility_change = 20000
    /\ call.time_since_last = 3600
    /\ ret.result = FALSE

\* C3: classify returns the regime, factor and range count of the band the
\* volatility lies in, a threshold belonging to the higher regime.
C3_Expected(v) ==
    IF v < 15000 THEN <<"ultra_low", 4000, 2>>
    ELSE IF v < 30000 THEN <<"low", 6000, 3>>
    ELSE IF v < 60000 THEN <<"medium", 10000, 4>>
    ELSE IF v < 120000 THEN <<"high", 18000, 5>>
    ELSE <<"extreme", 25000, 6>>

C3_ClassifyBands ==
    call.op = "classify_volatility_regime"
    => /\ ret.ok
       /\ <<ret.regime, ret.factor, ret.num_ranges>> = C3_Expected(call.volatility)

\* A volatility on a threshold, classified in the higher regime.
C3_Witness ==
    /\ call.op = "classify_volatility_regime"
    /\ call.volatility = 15000
    /\ ret.regime = "low" /\ ret.factor = 6000 /\ ret.num_ranges = 3

\* C4: classify always yields one of the five regimes, and from one
\* classification to the next a volatility that is not smaller gets a
\* regime, a factor and a range count that are not smaller.
C4_Rank(regime) == CHOOSE i \in 1..Len(Regimes) : Regimes[i] = regime

C4_Total ==
    call.op = "classify_volatility_regime"
    => /\ ret.ok
       /\ \E i \in 1..Len(Regimes) : Regimes[i] = ret.regime

C4_Step ==
    (/\ call.op = "classify_volatility_regime"
     /\ call'.op = "classify_volatility_regime"
     /\ call.volatility <= call'.volatility)
    => /\ C4_Rank(ret.regime) <= C4_Rank(ret'.regime)
       /\ ret.factor <= ret'.factor
       /\ ret.num_ranges <= ret'.num_ranges

C4_ClassifyMonotone == []C4_Total /\ [][C4_Step]_vars

\* A volatility beyond the last threshold, classified extreme.
C4_Witness ==
    /\ call.op = "classify_volatility_regime"
    /\ call.volatility > HIGH_THRESHOLD
    /\ ret.regime = "extreme"


\* C5: the liquidity of the ranges calculate_ranges_for_regime returns sums
\* to total_liquidity within total_liquidity / 1000.
C5_Allocated == sum_liquidity(ret.ranges, 1)

C5_ConservedWithinTolerance ==
    (call.op = "calculate_ranges_for_regime"
       /\ ret.op = "calculate_ranges_for_regime" /\ ret.ok)
    => /\ C5_Allocated - call.total_liquidity <= call.total_liquidity \div 1000
       /\ call.total_liquidity - C5_Allocated <= call.total_liquidity \div 1000

\* C6: the liquidity of the ranges calculate_ranges_for_regime returns sums
\* to total_liquidity exactly, no unit lost or created.
C6_ConservedExactly ==
    (call.op = "calculate_ranges_for_regime"
       /\ ret.op = "calculate_ranges_for_regime" /\ ret.ok)
    => sum_liquidity(ret.ranges, 1) = call.total_liquidity


\* C7: calculate_efficiency_score returns a value in 0..10000 for every range
\* array, positive price and volatility, volatility 0 included, and
\* returns 0 when the array holds no liquidity.
C7_ScoreWithinBounds ==
    (call.op = "calculate_efficiency_score"
       /\ ret.op = "calculate_efficiency_score")
    => /\ ret.ok
       /\ ret.score \in 0..10000
       /\ (sum_liquidity(call.ranges, 1) = 0 => ret.score = 0)

\* The checks of the validator, stated on the arguments of the call.
Validated == call.op = "validate_safety" /\ ret.op = "validate_safety"
OldTotal == sum_liquidity(call.old_ranges, 1)
NewTotal == sum_liquidity(call.new_ranges, 1)
NotConserved ==
    \/ OldTotal - NewTotal > OldTotal \div 1000
    \/ NewTotal - OldTotal > OldTotal \div 1000
NonEmpty(i) == call.new_ranges[i].liquidity > 0
Inverted(i) == NonEmpty(i) /\ call.new_ranges[i].lower >= call.new_ranges[i].upper
TooSmall(i) ==
    /\ NonEmpty(i)
    /\ call.new_ranges[i].lower > 0
    /\ call.new_ranges[i].lower < call.new_ranges[i].upper
    /\ ((call.new_ranges[i].upper - call.new_ranges[i].lower) * 10000)
           \div call.new_ranges[i].lower < min_range_size

\* C8: validate_safety returns unsafe whenever the totals differ by more than
\* old_total / 1000, in either direction, and whenever a non-empty new range
\* has lower >= upper.
C8_RejectsViolations ==
    (Validated /\ (NotConserved \/ \E i \in 1..NUM_SLOTS : Inverted(i)))
    => (ret.ok /\ ~ret.is_safe)

\* C9 as claimed: conservation, then lower < upper on every non-empty range,
\* then the minimum size of every non-empty range; the reason returned is
\* that of the first of these checks to fail.
C9_ClaimedReason ==
    IF NotConserved THEN "Liquidity not conserved"
    ELSE IF \E i \in 1..NUM_SLOTS : Inverted(i) THEN "lower >= upper"
    ELSE IF \E i \in 1..NUM_SLOTS : TooSmall(i) THEN "too small"
    ELSE "Validation passed"

C9_FirstFailing ==
    CHOOSE i \in 1..NUM_SLOTS :
        /\ Inverted(i) \/ TooSmall(i)
        /\ \A j \in 1..(i - 1) : ~(Inverted(j) \/ TooSmall(j))

C10_AlwaysReturns ==
    Validated
    => /\ ret.ok
       /\ ret.reason \in {"Validation passed", "Liquidity not conserved",
                          "lower >= upper", "non-positive liquidity",
                          "too small"}


\* C11: initialize_oracle fails and changes nothing when alpha is outside
\* 1..1000000 or window_size is outside 1..50; when it succeeds the oracle is
\* initialized with ewma_mean = 0 and ewma_variance = 0; on an initialized
\* oracle it fails and changes nothing.
C11_Step ==
    (call'.op = "initialize_oracle" /\ now' = now)
    => /\ (\/ ~(call'.alpha > 0 /\ call'.alpha <= 1000000)
           \/ ~(call'.window_size >= 1 /\ call'.window_size <= 50))
          => (~ret'.ok /\ oracle' = oracle)
       /\ oracle.is_initialized => (~ret'.ok /\ oracle' = oracle)
       /\ ret'.ok => /\ oracle'.is_initialized
                     /\ oracle'.ewma_mean = 0
                     /\ oracle'.ewma_variance = 0
                     /\ oracle'.alpha = call'.alpha
                     /\ oracle'.window_size = call'.window_size

C11_InitializeChecked == [][C11_Step]_vars

\* A second initialize_oracle with acceptable arguments, rejected by an
\* oracle that has taken prices since its initialization.
C11_Witness ==
    /\ call.op = "initialize_oracle" /\ ~ret.ok
    /\ call.initial_price > 0
    /\ call.alpha > 0 /\ call.alpha <= 1000000
    /\ call.window_size >= 1 /\ call.window_size <= 50
    /\ oracle.is_initialized
    /\ oracle.ewma_variance > 0


\* C12: an update with new_price <= 0, or on an estimator that is not
\* initialized, fails and leaves the estimator as it was, in the contract
\* and in the backend calculator alike; the price an update computes its
\* return against is therefore always positive.
C12_Step ==
    /\ (call'.op = "update_price" /\ now' = now
          /\ (call'.new_price <= 0 \/ ~oracle.is_initialized))
       => (~ret'.ok /\ oracle' = oracle)
    /\ (call'.op = "calculator.update_price" /\ call'.new_price <= 0)
       => (~ret'.ok /\ calculator' = calculator)

C12_PositivePrevious ==
    /\ oracle.is_initialized => oracle.current_price > 0
    /\ Len(calculator.price_history) > 0
       => calculator.price_history[Len(calculator.price_history)] > 0

C12_UpdateRejectsBadPrice == [][C12_Step]_vars /\ []C12_PositivePrevious


\* C13: a successful update_price from p0 to p1 takes the signed return
\* r = (p1 - p0) / p0, negative when the price falls, and sets
\* ewma_mean' = alpha * r + (1 - alpha) * ewma_mean and
\* ewma_variance' = alpha * (r - ewma_mean')^2 + (1 - alpha) * ewma_variance.
\* The values are in millionths; the stored values may differ from these by
\* what rounding to a millionth can account for.
C13_SignedReturn(p0, p1) == ((p1 - p0) * VOLATILITY_SCALE) \div p0

C13_Mean(o, r) == scaled_sum(o.alpha, r, ALPHA_SCALE - o.alpha, o.ewma_mean)

C13_Deviation(o, r) ==
    IF r >= C13_Mean(o, r) THEN r - C13_Mean(o, r) ELSE C13_Mean(o, r) - r

C13_Variance(o, r) ==
    scaled_sum(o.alpha, C13_Deviation(o, r) * C13_Deviation(o, r),
               ALPHA_SCALE - o.alpha, o.ewma_variance)

C13_Within(x, y, tolerance) == x - y <= tolerance /\ y - x <= tolerance

C13_Step ==
    (call'.op = "update_price" /\ now' = now /\ ret'.ok)
    => LET r == C13_SignedReturn(oracle.current_price, call'.new_price)
       IN  /\ C13_Within(oracle'.ewma_mean, C13_Mean(oracle, r), 1)
           /\ C13_Within(oracle'.ewma_variance, C13_Variance(oracle, r),
                         MulHi(oracle.alpha, 2 * C13_Deviation(oracle, r) + 1) + 2)

C13_SignedEwma == [][C13_Step]_vars


\* C14: in every state of an initialized oracle, right after
\* initialize_oracle and after any updates, ewma_variance >= 0 and
\* current_volatility is the square root of ewma_variance, rounded down.
C14_VolatilityIsRootOfVariance ==
    oracle.is_initialized
    => /\ oracle.ewma_variance >= 0
       /\ oracle.current_volatility = math_sqrt(oracle.ewma_variance)


\* C15: completing a rebalance, by mark_rebalance_completed or by the
\* success path of execute_rebalance, sets the time of the last rebalance to
\* the current time and the volatility of the last trigger to the current
\* volatility, adds exactly one to successful_rebalances and leaves
\* failed_rebalances as it was.
C15_Marked ==
    call'.op = "mark_rebalance_completed" /\ ret'.ok /\ now' = now

C15_Executed ==
    /\ call'.op = "execute_rebalance" /\ ret'.ok /\ now' = now
    /\ ret'.result = "REBALANCE_EXECUTED_SUCCESSFULLY"

C15_Step ==
    /\ C15_Marked
       => /\ oracle'.last_rebalance_time = now
          /\ oracle'.last_rebalance_volatility = oracle.current_volatility
          /\ successful_rebalances' = successful_rebalances + 1
          /\ failed_rebalances' = failed_rebalances
    /\ C15_Executed
       => /\ last_rebalance_time' = now
          /\ last_trigger_volatility' = oracle.current_volatility
          /\ successful_rebalances' = successful_rebalances + 1
          /\ failed_rebalances' = failed_rebalances

C15_CompletionRecorded == [][C15_Step]_vars


\* The range arrays the strings handed to execute_rebalance stand for.
Encoded(ranges_json) ==
    [i \in 1..NUM_SLOTS |->
        IF i = 1 /\ ranges_json = "[[1000,1100,1000]]" THEN Range(1000, 1100, 1000)
        ELSE IF i = 1 /\ ranges_json = "[[1100,1000,1000]]" THEN Range(1100, 1000, 1000)
        ELSE EmptyRange]

\* The proposal of an execute_rebalance call passes, or fails, the safety
\* validation of its ranges.
ProposalSafe(c) ==
    validate_safety(Encoded(c.old_ranges_json), Encoded(c.new_ranges_json)).is_safe

\* C16: an execute_rebalance outside the cooldown whose proposal fails safety
\* validation adds exactly one to failed_rebalances and leaves
\* last_rebalance_time and successful_rebalances as they were; an
\* execute_rebalance with a safe proposal that follows it at once is not
\* answered REBALANCE_COOLDOWN_ACTIVE.
C16_Executes ==
    /\ call'.op = "execute_rebalance" /\ now' = now
    /\ is_initialized /\ call'.caller_app_id = authorized_pool
    /\ now - last_rebalance_time >= rebalance_cooldown

C16_Step ==
    /\ (C16_Executes /\ ~ProposalSafe(call'))
       => /\ failed_rebalances' = failed_rebalances + 1
          /\ last_rebalance_time' = last_rebalance_time
          /\ successful_rebalances' = successful_rebalances
    /\ (/\ call.op = "execute_rebalance" /\ ret.ok
        /\ ret.result # "REBALANCE_COOLDOWN_ACTIVE"
        /\ ~ProposalSafe(call) /\ call.current_time = now
        /\ call'.op = "execute_rebalance" /\ now' = now
        /\ call'.caller_app_id = authorized_pool /\ ProposalSafe(call'))
       => (ret'.ok /\ ret'.result # "REBALANCE_COOLDOWN_ACTIVE")

C16_FailureKeepsCooldown == [][C16_Step]_vars


\* C17: with a clock that never goes back, a rebalance that is executed
\* after an earlier one has a timestamp at least rebalance_cooldown after
\* the earlier one's; a call of the pool made less than rebalance_cooldown
\* after the last executed rebalance is answered REBALANCE_COOLDOWN_ACTIVE
\* and changes no state of the engine.
C17_Called ==
    /\ call'.op = "execute_rebalance" /\ now' = now
    /\ is_initialized /\ call'.caller_app_id = authorized_pool

C17_Step ==
    /\ now' >= now
    /\ successful_rebalances > 0 => last_rebalance_time <= now
    /\ (/\ C17_Called /\ successful_rebalances > 0
        /\ ret'.ok /\ ret'.result = "REBALANCE_EXECUTED_SUCCESSFULLY")
       => /\ last_rebalance_time' = now
          /\ last_rebalance_time' - last_rebalance_time >= rebalance_cooldown
    /\ (/\ C17_Called /\ successful_rebalances > 0
        /\ now - last_rebalance_time < rebalance_cooldown)
       => /\ ret'.ok /\ ret'.result = "REBALANCE_COOLDOWN_ACTIVE"
          /\ UNCHANGED <<config, history>>

C17_CooldownBetweenRebalances == [][C17_Step]_vars

\* A second rebalance executed, and a call that follows it inside the
\* cooldown refused.
C17_Witness ==
    /\ call.op = "execute_rebalance" /\ ret.ok
    /\ ret.result = "REBALANCE_COOLDOWN_ACTIVE"
    /\ successful_rebalances = 2
    /\ now > last_rebalance_time
    /\ now - last_rebalance_time < rebalance_cooldown


\* C18: once initialize_engine has succeeded, no operation of the engine
\* changes authorized_pool, max_slippage, rebalance_cooldown or
\* min_range_size, and a further initialize_engine fails.
C18_Step ==
    is_initialized
    => /\ is_initialized'
       /\ authorized_pool' = authorized_pool
       /\ max_slippage' = max_slippage
       /\ rebalance_cooldown' = rebalance_cooldown
       /\ min_range_size' = min_range_size
       /\ (call'.op = "initialize_engine" /\ now' = now) => ~ret'.ok

C18_ConfigurationFixed == [][C18_Step]_vars

\* An engine that has rebalanced refuses an initialize_engine whose
\* arguments are acceptable and differ from its configuration.
C18_Witness ==
    /\ call.op = "initialize_engine" /\ ~ret.ok
    /\ is_initialized /\ successful_rebalances > 0
    /\ call.authorized_pool_id > 0 /\ call.authorized_pool_id # authorized_pool
    /\ call.max_slippage > 0 /\ call.max_slippage <= 1000
    /\ call.cooldown_seconds > 0 /\ call.cooldown_seconds # rebalance_cooldown
    /\ call.min_range_size > 0


\* C19: on a proposal that passes safety validation the answer is
\* INSUFFICIENT_GAIN whenever score(proposed) - score(current) < 100, a
\* negative difference included, and VALID only when the difference is at
\* least 100.
C19_Safe ==
    LET v == validate_safety(call.current_ranges, call.proposed_ranges)
    IN  v.ok /\ v.is_safe

C19_Score(ranges) ==
    calculate_efficiency_score(ranges, call.current_price, call.volatility)

C19_Gain == C19_Score(call.proposed_ranges).score - C19_Score(call.current_ranges).score

C20_ConstantPrices ==
    /\ oracle.is_initialized
    /\ oracle.price_history_count > 1
    /\ oracle.price_history_count < HISTORY_SLOTS
    /\ \A i \in 1..oracle.price_history_count :
          oracle.prices[i] = oracle.prices[oracle.price_history_count]

C20_ConstantPriceZeroVolatility ==
    C20_ConstantPrices
    => /\ oracle.current_volatility = 0
       /\ oracle.ewma_mean = 0
       /\ oracle.ewma_variance = 0

\* The initial price given three times more, the volatility 0.
C20_Witness ==
    /\ C20_ConstantPrices
    /\ oracle.price_history_count = 4
    /\ call.op = "update_price" /\ ret.ok
    /\ oracle.current_volatility = 0



\* C21: the backend's decision, should_rebalance and check_rebalancing built
\* on it, reports no rebalance whenever time_since_last is below the cooldown
\* of 300 seconds, whatever the efficiency and the volatility change, as the
\* engine's should_rebalance does on the same input.
C21_BackendHonoursCooldown ==
    (/\ call.op \in {"backend.should_rebalance", "backend.check_rebalancing"}
     /\ ret.op = call.op
     /\ call.time_since_last < DEFAULT_COOLDOWN)
    => /\ ret.result = FALSE
       /\ ret.result = should_rebalance_decision(call.current_efficiency,
                           call.time_since_last, call.volatility_change)



\* The allocator has returned its ranges: the contract's subroutine or the
\* harness's copy.
AllocationReturned ==
    /\ call.op \in {"calculate_ranges_for_regime",
                    "logic.calculate_ranges_for_regime"}
    /\ ret.op = call.op
    /\ ret.ok

\* C22: every range the allocator returns for a positive price, factor,
\* range count and liquidity has lower < upper, small prices included.
C22_LowerBelowUpper ==
    AllocationReturned
    => \A i \in 1..call.num_ranges : ret.ranges[i].lower < ret.ranges[i].upper



\* The bounds the allocator partitions, from the arguments of the call:
\* current_price less and plus its bound percentage, the concentration factor
\* in percent capped at 50, with the two corrections of degenerate bounds.
C23_PriceRange ==
    (call.current_price * Min(call.concentration_factor \div 100, 50)) \div 100
C23_MinPrice ==
    IF call.current_price - C23_PriceRange <= 0
    THEN call.current_price \div 2
    ELSE call.current_price - C23_PriceRange
C23_MaxPrice ==
    IF call.current_price + C23_PriceRange <= C23_MinPrice
    THEN C23_MinPrice + call.current_price \div 10
    ELSE call.current_price + C23_PriceRange
C23_Width(i) == ret.ranges[i].upper - ret.ranges[i].lower

\* The ranges are of equal width, each begins where the one before it ends,
\* the first begins at min_price, and the price is within the bounds.
C23_Chain ==
    /\ \A i \in 1..call.num_ranges : C23_Width(i) = C23_Width(1)
    /\ \A i \in 1..(call.num_ranges - 1) :
          ret.ranges[i].upper = ret.ranges[i + 1].lower
    /\ ret.ranges[1].lower = C23_MinPrice
    /\ C23_MinPrice <= call.current_price
    /\ call.current_price <= C23_MaxPrice

\* C23 as claimed: the returned ranges partition [min_price, max_price]; the
\* last range ends at max_price.
C23_PartitionsBounds ==
    AllocationReturned
    => /\ C23_Chain
       /\ ret.ranges[call.num_ranges].upper = C23_MaxPrice

\* C23 as amended: the returned ranges are of the equal width
\* (max_price - min_price) div range_count and chained from min_price on; the
\* last range ends at max_price less the remainder of that division.
C23_PartitionsUpToRemainder ==
    AllocationReturned
    => /\ C23_Chain
       /\ C23_Width(1) = (C23_MaxPrice - C23_MinPrice) \div call.num_ranges
       /\ ret.ranges[call.num_ranges].upper
            = C23_MaxPrice - ((C23_MaxPrice - C23_MinPrice) % call.num_ranges)

\* Three ranges of width 333 returned for the bounds [500, 1500]: the last
\* range ends at 1499.
C23_Witness ==
    /\ AllocationReturned
    /\ call.current_price = 1000 /\ call.num_ranges = 3
    /\ C23_MinPrice = 500 /\ C23_MaxPrice = 1500
    /\ C23_Width(1) = 333
    /\ ret.ranges[3].upper = 1499



\* The distance of the center of the i-th returned range from the price.
C24_Distance(i) ==
    Abs((ret.ranges[i].lower + ret.ranges[i].upper) \div 2 - call.current_price)

\* C24: of the ranges the allocator returns, one whose center is not farther
\* from the price than another's does not get less liquidity, and none gets
\* more than 1.5 times the liquidity of another, one unit of rounding aside.
C24_ProximityBias ==
    AllocationReturned
    => \A i, j \in 1..call.num_ranges :
          /\ C24_Distance(i) <= C24_Distance(j)
                => ret.ranges[i].liquidity >= ret.ranges[j].liquidity
          /\ 2 * (ret.ranges[i].liquidity - 1) <= 3 * ret.ranges[j].liquidity

\* Three ranges for the price 1000: the middle one, nearest the price, gets
\* more than the outer ones and less than 1.5 times as much.
C24_Witness ==
    /\ AllocationReturned
    /\ call.current_price = 1000 /\ call.num_ranges = 3
    /\ call.total_liquidity = 1000
    /\ C24_Distance(2) < C24_Distance(1)
    /\ ret.ranges[2].liquidity > ret.ranges[1].liquidity
    /\ 2 * ret.ranges[2].liquidity < 3 * ret.ranges[1].liquidity



\* The scorer has been applied, the contract's subroutine or the harness's
\* copy, with a max_reasonable_distance of 0 to an array that holds liquidity.
C25_ScoredWithoutReach ==
    /\ call.op \in {"calculate_efficiency_score",
                    "logic.calculate_efficiency_score"}
    /\ ret.op = call.op
    /\ (call.current_price * call.volatility) \div 5000 = 0
    /\ \E i \in 1..NUM_SLOTS : call.ranges[i].liquidity > 0

C25_Distance(i) ==
    Abs((call.ranges[i].lower + call.ranges[i].upper) \div 2 - call.current_price)

\* C25: where max_reasonable_distance is 0 the scorer returns and does not
\* divide by it: the score is 10000 when every range that holds liquidity has
\* its center closer than 1% of the price, and a fixed low score, 1000 at
\* most, when every such range has its center farther than 1%.
C25_StepWithoutReach ==
    C25_ScoredWithoutReach
    => /\ ret.ok
       /\ (\A i \in 1..NUM_SLOTS :
              call.ranges[i].liquidity > 0
                 => C25_Distance(i) < call.current_price \div 100)
             => ret.score = 10000
       /\ (\A i \in 1..NUM_SLOTS :
              call.ranges[i].liquidity > 0
                 => C25_Distance(i) > call.current_price \div 100)
             => ret.score <= 1000



\* C26: for every x >= 0 the square root routine returns the integer square
\* root of x, the z with z * z <= x < (z + 1) * (z + 1).  The two products
\* are compared as quotients: z <= x div z and x div (z + 1) < z + 1.
C26_IntegerSquareRoot ==
    (call.op = "sqrt" /\ ret.op = "sqrt")
    => /\ ret.ok
       /\ ret.result >= 0
       /\ ret.result > 0 => ret.result <= call.x \div ret.result
       /\ call.x \div (ret.result + 1) < ret.result + 1



\* C27: in every reachable state of the engine total_rebalances is the sum of
\* successful_rebalances and failed_rebalances, and no step makes any of the
\* three counters smaller.
C27_Sum == total_rebalances = successful_rebalances + failed_rebalances

C27_Step ==
    /\ total_rebalances' >= total_rebalances
    /\ successful_rebalances' >= successful_rebalances
    /\ failed_rebalances' >= failed_rebalances

C27_CountersAddUp == []C27_Sum /\ [][C27_Step]_vars

\* A second rebalance has been executed and counted.
C27_Witness ==
    /\ call.op = "execute_rebalance"
    /\ ret.result = "REBALANCE_EXECUTED_SUCCESSFULLY"
    /\ total_rebalances = 2
    /\ successful_rebalances = 2
    /\ failed_rebalances = 0



\* C28: in every reachable state of the initialized oracle the stored regime
\* is the classification of the stored volatility: low below 20000, high
\* above 50000, medium otherwise; the state initialize_oracle leaves included.
C28_RegimeOf(volatility) ==
    IF volatility < 20000 THEN "low"
    ELSE IF volatility > 50000 THEN "high"
    ELSE "medium"

C28_RegimeMatchesVolatility ==
    oracle.is_initialized
    => oracle.current_regime = C28_RegimeOf(oracle.current_volatility)



\* C29: only a call made by the authorized pool changes the rebalancing
\* state.  A call of the engine or of RebalancingState made by any other
\* caller leaves last_rebalance_time, the rebalance counters and the stored
\* current_ranges as they were.
C29_ByOther ==
    \/ /\ call'.op = "execute_rebalance" /\ now' = now
       /\ call'.caller_app_id # authorized_pool
    \/ /\ call'.op \in {"state.initialize_engine", "state.should_rebalance",
                        "state.update_ranges_from_backend",
                        "state.execute_rebalance"}
       /\ now' = now
       /\ call'.caller # rebalancing_state.authorized_pool

C29_Step ==
    C29_ByOther
    => /\ UNCHANGED history
       /\ rebalancing_state'.last_rebalance_time
            = rebalancing_state.last_rebalance_time
       /\ rebalancing_state'.total_rebalances
            = rebalancing_state.total_rebalances
       /\ rebalancing_state'.successful_rebalances
            = rebalancing_state.successful_rebalances
       /\ rebalancing_state'.current_ranges = rebalancing_state.current_ranges

C29_OnlyAuthorizedPool == [][C29_Step]_vars

\* C30: calculate_optimal_ranges completes for every positive current_price
\* up to the price 1.0 (10^18) and every regime: no product of the range
\* calculation exceeds 2^64 - 1 and no subtraction goes below zero.
C30_CompletesWithinUInt64 ==
    ( /\ call.op = "calculate_optimal_ranges"
      /\ ret.op = "calculate_optimal_ranges"
      /\ wide_less(wide_of(0), call.current_price)
      /\ ~wide_less(FIXED_POINT_SCALE, call.current_price) )
        => ret.ok /\ ret.failure = "none"

====
